---- MODULE Spec2Model ----
(***************************************************************************)
(* A model of codecv's commit ingestion and hierarchical aggregation:      *)
(*   - the technology weight normalizer (_consolidate_technologies of the  *)
(*     weekly and of the monthly summarizer),                              *)
(*   - the daily -> weekly -> monthly summarizers,                         *)
(*   - the paginated commit extraction (extract_commits_by_author).        *)
(*                                                                         *)
(* Percentages are counted in hundredths of a percent (100.00 = 10000),    *)
(* dates are [y, m, d] records (the ISO text exchanged between stages) and *)
(* date arithmetic goes through proleptic Gregorian ordinals, as Python's  *)
(* datetime does.  Strings are sequences of one-character strings.         *)
(***************************************************************************)
EXTENDS Integers, Sequences, FiniteSets, TLC

VARIABLES
    \* --- normalizer (one call of _consolidate_technologies) ---
    group,        \* the list of buckets' "technologies" maps handed to the call
    level,        \* "none" | "weekly" | "monthly": which summarizer's method ran
    result,       \* [status, value]: the returned map, or the exception raised
    \* --- aggregation (DailySummarizer -> WeeklySummarizer -> MonthlySummarizer) ---
    commits_generator,  \* the batches handed to DailySummarizer.summarize
    stage,        \* "idle" | "start" | "daily" | "weekly" | "monthly" | "failed"
    failure,      \* "" or the exception that aborted a stage
    daily_summaries,
    weekly_summaries,
    monthly_summaries,
    \* --- extraction (one call of extract_commits_by_author) ---
    repo,         \* [path, bare, heads]: what Repo(repo_path) finds on disk
    args,         \* the call's arguments
    pc,           \* "idle" | "created" | "running" | "done" | "raised"
    raised,       \* "" or the exception the generator raised
    branches_to_iterate,
    branch_pos,   \* position of the outer loop in branches_to_iterate
    commit_pos,   \* position of the inner loop in the branch's commits
    batch,
    yielded,      \* the batches the generator has yielded so far
    \* --- pipeline (runs of CVGenerator.run on one working directory) ---
    store,        \* the files under data/: a set of [path, content]
    store_at_start,  \* the files as the current run found them
    run,          \* the number of the current run
    step,         \* "idle" | "off" | "collect" | "context" | "daily" | "weekly"
                  \* | "monthly" | "llm" | "export": where run() stands
    config,       \* what collect_inputs left in the ConfigurationManager
    last_commit,  \* <<>> or <<committed_date>> of the newest commit
    hash,         \* CVGenerator.hash
    outputs,      \* what process_and_save returned, by stage
    invoked,      \* calls of summarize in the current run, by stage
    generator_iterated,  \* the run's commit generator has been started
    run_error,    \* "" or the exception that run() caught
    llm_called,   \* _llm_processing has been entered
    exported,     \* _export has been entered
    history,      \* the runs that are over
    answers,      \* the configurations the prompts may be answered with
    \* --- one call of _unify_and_summarize ---
    commits,      \* the descriptions of the commits handed to the call
    max_token_threshold,
    unify_pc,     \* "idle" | "called" | "returned" | "ValueError" | "model error"
    generate_calls,   \* calls of self.model.generate
    prompt_sent,  \* the prompt generate was called with
    \* --- one call of process_input_dates or of collect_inputs' date prompts ---
    input_start,  \* the answer to START_DATE
    input_end,    \* the answer to END_DATE
    dates_pc,     \* "idle" | "called" | "processed" | "collected"
    dates,        \* what the call returned or stored, or the error it raised
    \* --- one call of TechnologyDetector.detect ---
    response,     \* what self.model.generate returned
    detect_pc,    \* "idle" | "called" | "returned" | "raised"
    technologies, \* what detect returned, or the error it raised
    \* --- calls of Openai.generate on one provider ---
    redis,        \* CacheManager.redis: "connected" | "none"
    reachable,    \* the backend answers, for the length of a call
    cache_store,  \* what Redis holds, by prompt
    store_at_call,  \* what it held when the current call began
    provider_pc,  \* "off" | "idle" | "lookup" | "request" | "returned" | "raised"
    call,         \* the arguments of the current call
    retry_count,
    requests,     \* API requests made by the current call
    outcome,      \* "" or what the last request came to
    answer,       \* <<>> or <<what the call returned>>
    call_count    \* calls made so far

normVars == <<group, level, result>>
aggVars  == <<commits_generator, stage, failure, daily_summaries,
              weekly_summaries, monthly_summaries>>
extractVars == <<repo, args, pc, raised, branches_to_iterate, branch_pos,
                 commit_pos, batch, yielded>>
pipeVars == <<store, store_at_start, run, step, config, last_commit, hash,
              outputs, invoked, generator_iterated, run_error, llm_called,
              exported, history, answers>>
unifyVars == <<commits, max_token_threshold, unify_pc, generate_calls, prompt_sent>>
dateVars  == <<input_start, input_end, dates_pc, dates>>
detectVars == <<response, detect_pc, technologies>>
providerVars == <<redis, reachable, cache_store, store_at_call, provider_pc, call,
                  retry_count, requests, outcome, answer, call_count>>
callVars  == <<dateVars, detectVars, providerVars>>
vars     == <<normVars, aggVars, extractVars, pipeVars, unifyVars, callVars>>

(***************************************************************************)
(* Generic helpers                                                         *)
(***************************************************************************)
Range(s) == {s[i] : i \in 1..Len(s)}

RECURSIVE SumSeq(_)
SumSeq(s) == IF s = <<>> THEN 0 ELSE Head(s) + SumSeq(Tail(s))

\* Sequences over S of length lo..hi.
SeqsOf(S, lo, hi) == UNION {[1..n -> S] : n \in lo..hi}

(***************************************************************************)
(* TechnologyWeightNormalizer                                              *)
(*                                                                         *)
(* A weight map is a Python dict: a sequence of [tech, weight] entries in  *)
(* insertion order with distinct keys.  A technology is the rank of its    *)
(* name in lexicographic order, so sorted(items) is the order on ranks.    *)
(***************************************************************************)
NumTechs   == 3      \* technology names in play
MaxMaps    == 2      \* maps in one group
MaxEntries == 3      \* entries of one group, over all its maps
BigWeight  == 29998  \* one large weight, for skewed distributions; against
                     \* two weights of 1 its remainder ties with theirs

Techs   == 1..NumTechs
Weights == {0, 1, BigWeight}
\* Weights whose shares are whole hundredths or halves of one: 46 of 160 is
\* 28.75, 57 of 160 is 35.625.
ResidualWeights == {1, 46, 57}

HundredPercent == 10000   \* 100.00 in hundredths

Entry(t, w) == [tech |-> t, weight |-> w]

HasKey(m, t) == \E i \in 1..Len(m) : m[i].tech = t

DistinctKeys(m) == \A i, j \in 1..Len(m) : i # j => m[i].tech # m[j].tech

\* The ways to cut n entries into k consecutive (possibly empty) dicts.
Cuts(n, k) == {f \in [1..n -> 1..k] : \A i \in 1..(n - 1) : f[i] <= f[i + 1]}

CutGroup(es, f, k) ==
    [m \in 1..k |-> SelectSeq([i \in 1..Len(es) |-> [e |-> es[i], at |-> f[i]]],
                              LAMBDA x : x.at = m)]

\* The group of k dicts cut from the entries es at f.
GroupOf(es, f, k) ==
    LET g == CutGroup(es, f, k)
    IN  [m \in 1..k |-> [i \in 1..Len(g[m]) |-> g[m][i].e]]

\* defaultdict(float): totals[tech] += weight
AddWeight(totals, t, w) ==
    IF HasKey(totals, t)
    THEN [i \in 1..Len(totals) |->
             IF totals[i].tech = t THEN Entry(t, totals[i].weight + w) ELSE totals[i]]
    ELSE Append(totals, Entry(t, w))

RECURSIVE AddMap(_, _)
AddMap(totals, m) ==
    IF m = <<>> THEN totals
    ELSE AddMap(AddWeight(totals, Head(m).tech, Head(m).weight), Tail(m))

\* "Collect technology weights": the two nested loops over the group.
RECURSIVE CollectWeights(_, _)
CollectWeights(totals, g) ==
    IF g = <<>> THEN totals ELSE CollectWeights(AddMap(totals, Head(g)), Tail(g))

TotalWeight(totals) == SumSeq([i \in 1..Len(totals) |-> totals[i].weight])

\* round((weight / total) * 100, 2), in hundredths; ties go to the even digit.
RoundedPercentage(w, total) ==
    LET n == w * HundredPercent
        q == n \div total
        r == n % total
    IN  IF 2 * r > total THEN q + 1
        ELSE IF 2 * r < total THEN q
        ELSE IF q % 2 = 0 THEN q ELSE q + 1

\* math.floor(percentages[tech] * 100) is taken of a float.  For these
\* (weight, total), the only ones among the weights in play, the exact share
\* is a whole number of hundredths but the float lies just below it
\* (46 / 160 * 100 is 28.749999999999996), so the floor is one hundredth short.
FloorSlips(w, total) == <<w, total>> \in { <<46, 160>> }

\* percentages[tech] - math.floor(percentages[tech] * 100) / 100, as a numerator
\* over the common denominator 100 * total; a whole hundredth where the floor
\* slips.
DecimalDiff(w, total) ==
    IF FloorSlips(w, total) THEN total ELSE (w * HundredPercent) % total

\* sorted(decimal_diffs, key=..., reverse=True)[0].  The keys are floats: equal
\* weights give identical floats and the stable sort keeps the first inserted;
\* different weights whose exact remainders are equal differ by float noise
\* only, and which of them sorts first is not decided here.  The candidates
\* are the entries that can come first.
TieCandidates(totals, total) ==
    {i \in 1..Len(totals) :
        /\ \A j \in 1..Len(totals) :
              DecimalDiff(totals[j].weight, total) <= DecimalDiff(totals[i].weight, total)
        /\ \A j \in 1..(i - 1) : totals[j].weight # totals[i].weight}

\* The first of sorted_techs when `pick` chooses among the candidates.
LargestRemainder(totals, total, pick) ==
    LET c == TieCandidates(totals, total)
    IN  IF pick \in c THEN pick ELSE CHOOSE i \in c : \A j \in c : i <= j

RoundedPercentages(totals, total) ==
    [i \in 1..Len(totals) |-> Entry(totals[i].tech, RoundedPercentage(totals[i].weight, total))]

\* A mutant of AdjustToHundred: the residual is dropped.
AdjustToHundred_NoResidual(totals, total, pick) == RoundedPercentages(totals, total)

\* "Adjust so that the summation is exactly 100".
AdjustToHundred(totals, total, pick) ==
    LET rounded     == RoundedPercentages(totals, total)
        current_sum == TotalWeight(rounded)
        diff        == HundredPercent - current_sum
        first       == LargestRemainder(totals, total, pick)
    IN  IF current_sum # HundredPercent
        THEN [rounded EXCEPT ![first] = Entry(rounded[first].tech, rounded[first].weight + diff)]
        ELSE rounded

\* dict(sorted(rounded_percentages.items()))
RECURSIVE SortedByTech(_)
SortedByTech(m) ==
    IF m = <<>> THEN <<>>
    ELSE LET i == CHOOSE i \in 1..Len(m) : \A j \in 1..Len(m) : m[i].tech <= m[j].tech
         IN  <<m[i]>> \o SortedByTech([k \in 1..(Len(m) - 1) |-> IF k < i THEN m[k] ELSE m[k + 1]])

Returned(v) == [status |-> "ok", value |-> v]
Raised(e)   == [status |-> e, value |-> <<>>]

\* WeeklySummarizer._consolidate_technologies: no guard on a zero total.
WeeklyConsolidate(g, pick) ==
    LET tech_weights == CollectWeights(<<>>, g)
        total_weight == TotalWeight(tech_weights)
    IN  IF tech_weights = <<>> THEN Raised("IndexError")            \* sorted_techs[0] of []
        ELSE IF total_weight = 0 THEN Raised("ZeroDivisionError")   \* weight / total_weight
        ELSE Returned(SortedByTech(AdjustToHundred(tech_weights, total_weight, pick)))

\* A mutant of MonthlyConsolidate: the map is returned in insertion order.
MonthlyConsolidate_InsertionOrder(g, pick) ==
    LET technology_totals    == CollectWeights(<<>>, g)
        total_monthly_weight == TotalWeight(technology_totals)
    IN  IF total_monthly_weight = 0 THEN Returned(<<>>)
        ELSE Returned(AdjustToHundred(technology_totals, total_monthly_weight, pick))

\* MonthlySummarizer._consolidate_technologies.
MonthlyConsolidate(g, pick) ==
    LET technology_totals    == CollectWeights(<<>>, g)
        total_monthly_weight == TotalWeight(technology_totals)
    IN  IF total_monthly_weight = 0 THEN Returned(<<>>)
        ELSE Returned(SortedByTech(AdjustToHundred(technology_totals, total_monthly_weight, pick)))

\* The outcomes of the float comparison of tied remainders, for one group; one
\* outcome where nothing is adjusted.
Picks(g) ==
    LET totals == CollectWeights(<<>>, g)
        total  == TotalWeight(totals)
    IN  IF total = 0 THEN {1}
        ELSE IF TotalWeight(RoundedPercentages(totals, total)) = HundredPercent THEN {1}
        ELSE TieCandidates(totals, total)

(***************************************************************************)
(* Calendar: datetime.date as Python computes it                           *)
(***************************************************************************)
Date(y, m, d) == [y |-> y, m |-> m, d |-> d]

IsLeap(y) == y % 4 = 0 /\ (y % 100 # 0 \/ y % 400 = 0)

DaysInMonth(y, m) ==
    IF m = 2 THEN (IF IsLeap(y) THEN 29 ELSE 28)
    ELSE IF m \in {4, 6, 9, 11} THEN 30 ELSE 31

DaysBeforeYear(y) ==
    LET p == y - 1 IN p * 365 + (p \div 4) - (p \div 100) + (p \div 400)

\* days of the year before the first of month m
DaysBeforeMonth(y, m) ==
    <<0, 31, 59, 90, 120, 151, 181, 212, 243, 273, 304, 334>>[m]
        + (IF m > 2 /\ IsLeap(y) THEN 1 ELSE 0)

\* date.toordinal()
ToOrdinal(dt) == DaysBeforeYear(dt.y) + DaysBeforeMonth(dt.y, dt.m) + dt.d

RECURSIVE YearOfOrdinal(_, _)
YearOfOrdinal(n, y) == IF n <= DaysBeforeYear(y + 1) THEN y ELSE YearOfOrdinal(n, y + 1)

\* the k-th day of year y
DayOfYear(y, k) ==
    LET m == CHOOSE m \in 1..12 :
                 DaysBeforeMonth(y, m) < k /\ k <= DaysBeforeMonth(y, m) + DaysInMonth(y, m)
    IN  Date(y, m, k - DaysBeforeMonth(y, m))

\* date.fromordinal(n)
FromOrdinal(n) ==
    LET y == YearOfOrdinal(n, n \div 366)
    IN  DayOfYear(y, n - DaysBeforeYear(y))

\* date.weekday(): Monday is 0, Sunday is 6
Weekday(dt) == (ToOrdinal(dt) + 6) % 7

\* date + timedelta(days=k)
AddDays(dt, k) == FromOrdinal(ToOrdinal(dt) + k)

\* date.replace(day=k)
ReplaceDay(dt, k) == [dt EXCEPT !.d = k]

(***************************************************************************)
(* The summarizers                                                         *)
(*                                                                         *)
(* A commit is [date]; a daily bucket [date, commit_count, technologies];  *)
(* a weekly bucket [start_date, end_date, commit_count, technologies]; a   *)
(* monthly bucket adds month = <<year, month>>, the "%Y-%m" label.  The    *)
(* "descriptions" text is the language model's answer and is left out; the *)
(* call that produces it can fail and abort the stage.                     *)
(***************************************************************************)
MaxCommits == 2      \* commits handed to the daily summarizer
MaxSpan    == 1      \* days between the first commit and any other, either way
WindowDays == 400    \* days the first commit is drawn from, from FirstDate on

\* The window holds a February of 28 days, one of 29 and a turn of the year.
FirstDate == Date(2023, 2, 1)

\* What TechnologyDetector.detect answers for one day: the model's JSON object,
\* or {} (its own fallback).
DetectorMaps == { <<>>, <<Entry(2, 60), Entry(1, 40)>> }

\* defaultdict(list): summaries[key].append(item), keys in first-seen order
\* A mutant of AppendTo: a new key goes to the front.
AppendTo_NewKeyFirst(summaries, k, item) ==
    IF \E i \in 1..Len(summaries) : summaries[i].key = k
    THEN LET i == CHOOSE i \in 1..Len(summaries) : summaries[i].key = k
         IN  [summaries EXCEPT ![i].items = Append(@, item)]
    ELSE <<[key |-> k, items |-> <<item>>]>> \o summaries

\* summaries[key].append(item), on a defaultdict(list)
AppendTo(summaries, k, item) ==
    IF \E i \in 1..Len(summaries) : summaries[i].key = k
    THEN LET i == CHOOSE i \in 1..Len(summaries) : summaries[i].key = k
         IN  [summaries EXCEPT ![i].items = Append(@, item)]
    ELSE Append(summaries, [key |-> k, items |-> <<item>>])

RECURSIVE GroupBy(_, _, _)
GroupBy(Key(_), items, summaries) ==
    IF items = <<>> THEN summaries
    ELSE GroupBy(Key, Tail(items), AppendTo(summaries, Key(Head(items)), Head(items)))

\* for batch in commits_generator: for commit in batch
RECURSIVE Flatten(_)
Flatten(batches) == IF batches = <<>> THEN <<>> ELSE Head(batches) \o Flatten(Tail(batches))

\* datetime.fromisoformat(commit["date"]).date()
DayKey(commit) == commit.date

\* A mutant of WeekKey: weeks start on Sunday.
WeekKey_SundayStart(day) == AddDays(day.date, 0 - ((Weekday(day.date) + 1) % 7))

\* commit_date - timedelta(days=commit_date.weekday())
WeekKey(day) == AddDays(day.date, 0 - Weekday(day.date))

\* A mutant of MonthKey: the month of the week's last day.
MonthKey_OfSunday(week) == ReplaceDay(week.end_date, 1)

\* start_dt.replace(day=1)
MonthKey(week) == ReplaceDay(week.start_date, 1)

\* A mutant of LastDayOfMonth: three days are added to the 28th, not four.
LastDayOfMonth_ThreeDays(d) ==
    AddDays(ReplaceDay(AddDays(ReplaceDay(d, 28), 3), 1), 0 - 1)

\* MonthlySummarizer._last_day_of_month
LastDayOfMonth(d) ==
    LET next_month == ReplaceDay(AddDays(ReplaceDay(d, 28), 4), 1)
    IN  AddDays(next_month, 0 - 1)

\* A mutant of DailyCount: every day counts one commit.
DailyCount_OnePerDay(g) == 1

\* "commit_count": len(group)
DailyCount(g) == Len(g)

\* sum(item["commit_count"] for item in group)
TotalCommits(g) == SumSeq([i \in 1..Len(g) |-> g[i].commit_count])

Technologies(g) == [i \in 1..Len(g) |-> g[i].technologies]

\* The groups of DailySummarizer.summarize: the commits of each day.
DayGroups(batches) == GroupBy(DayKey, Flatten(batches), <<>>)

\* DailySummarizer.summarize: the buckets, given the detector's answer per day.
DailyBuckets(summaries, detected) ==
    [i \in 1..Len(summaries) |->
        [date         |-> summaries[i].key,
         commit_count |-> DailyCount(summaries[i].items),
         technologies |-> detected[i]]]

\* The groups of WeeklySummarizer.summarize: the daily buckets of each week.
WeekGroups(data) == GroupBy(WeekKey, data, <<>>)

\* WeeklySummarizer.summarize: the buckets, when no group raises.
WeeklyBuckets(summaries, picks) ==
    [i \in 1..Len(summaries) |->
        [start_date   |-> summaries[i].key,
         end_date     |-> AddDays(summaries[i].key, 6),
         commit_count |-> TotalCommits(summaries[i].items),
         technologies |->
             WeeklyConsolidate(Technologies(summaries[i].items), picks[i]).value]]

\* The exception of the first week whose consolidation raises, or "".
WeeklyError(summaries) ==
    LET st  == [i \in 1..Len(summaries) |->
                   WeeklyConsolidate(Technologies(summaries[i].items), 1).status]
        bad == {i \in 1..Len(summaries) : st[i] # "ok"}
    IN  IF bad = {} THEN "" ELSE st[CHOOSE i \in bad : \A j \in bad : i <= j]

\* The groups of MonthlySummarizer.summarize: the weekly buckets of each month.
MonthGroups(data) == GroupBy(MonthKey, data, <<>>)

\* MonthlySummarizer.summarize
MonthlyBuckets(summaries, picks) ==
    [i \in 1..Len(summaries) |->
        [month        |-> <<summaries[i].key.y, summaries[i].key.m>>,
         start_date   |-> summaries[i].key,
         end_date     |-> LastDayOfMonth(summaries[i].key),
         commit_count |-> TotalCommits(summaries[i].items),
         technologies |->
             MonthlyConsolidate(Technologies(summaries[i].items), picks[i]).value]]

\* One outcome per group of a stage.
GroupPicks(summaries) ==
    LET c == [i \in 1..Len(summaries) |-> Picks(Technologies(summaries[i].items))]
    IN  {f \in [1..Len(summaries) -> UNION Range(c)] : \A i \in 1..Len(summaries) : f[i] \in c[i]}

\* The batches a page size cuts a list of commits into.
RECURSIVE Pages(_, _)
Pages(cs, size) ==
    IF cs = <<>> THEN <<>>
    ELSE IF Len(cs) <= size THEN <<cs>>
    ELSE <<SubSeq(cs, 1, size)>> \o Pages(SubSeq(cs, size + 1, Len(cs)), size)

NormIdle == group = <<>> /\ level = "none" /\ result = Raised("")
AggIdle  == /\ commits_generator = <<>> /\ stage = "idle" /\ failure = ""
            /\ daily_summaries = <<>> /\ weekly_summaries = <<>>
            /\ monthly_summaries = <<>>

(***************************************************************************)
(* SpecPipeline: CVGenerator.run over FileCache.process_and_save           *)
(*                                                                         *)
(* Runs of the application follow one another on the same working          *)
(* directory; between two runs a commit may land in the repository.  What  *)
(* a summarizer returns depends on a model's answers and is any content.   *)
(***************************************************************************)
MaxRuns       == 2      \* runs of the application, one after the other
MaxCommitDate == 2      \* committed_date of the newest commit, at most

Stages == <<"daily", "weekly", "monthly">>

Contents == {"x", "y"}

\* The inputs of collect_inputs that generate_hash does not read, in the order
\* repo_branches, ignore_commit_keywords, author_name, export_format,
\* target_language, grammatical_person; and another answer to each.
Defaults     == << <<>>, <<>>, "Ann", "markdown", "english", "third" >>
Alternatives == << <<"main">>, <<"typo">>, "Bob", "pdf", "spanish", "first" >>

\* What collect_inputs leaves in the ConfigurationManager.
Configuration(provider, start, end, rest) ==
    [repo_path |-> "repo", author_email |-> <<"me@example.com">>,
     llm_provider |-> provider, start_date |-> start, end_date |-> end,
     repo_branches |-> rest[1], ignore_commit_keywords |-> rest[2],
     author_name |-> rest[3], export_format |-> rest[4],
     target_language |-> rest[5], grammatical_person |-> rest[6]]

\* What collect_inputs can leave in the ConfigurationManager: the dates are
\* set together or not at all.
Configs ==
    {Configuration("openai", <<>>, <<>>, Defaults),
     Configuration("openai", <<1>>, <<2>>, Defaults),
     Configuration("ollama", <<>>, <<>>, Defaults)}

\* One configuration, and the same with another answer to each of the inputs
\* that generate_hash does not read.
VariedConfigs ==
    {Configuration("openai", <<>>, <<>>, Defaults),
     Configuration("openai", <<>>, <<>>, Alternatives)}

NoConfig ==
    [repo_path |-> "", author_email |-> <<>>, llm_provider |-> "",
     start_date |-> <<>>, end_date |-> <<>>,
     repo_branches |-> <<>>, ignore_commit_keywords |-> <<>>,
     author_name |-> "", export_format |-> "",
     target_language |-> "", grammatical_person |-> ""]

\* A mutant of generate_hash: the selected branches are hashed too.
generate_hash_WithBranches(cfg, date) ==
    <<cfg.repo_path, cfg.author_email, cfg.llm_provider, cfg.repo_branches>>
        \o cfg.start_date \o cfg.end_date \o date

\* A mutant of generate_hash: the number of the run is hashed too.
generate_hash_PerRun(cfg, date) ==
    <<cfg.repo_path, cfg.author_email, cfg.llm_provider>>
        \o cfg.start_date \o cfg.end_date \o date \o <<run>>

\* ConfigurationManager.generate_hash: the hashed string, field by field; a
\* date that is not set adds no field.
generate_hash(cfg, date) ==
    <<cfg.repo_path, cfg.author_email, cfg.llm_provider>>
        \o cfg.start_date \o cfg.end_date \o date

\* f"data/{stage}-summaries-{self.hash}.json"
FilePath(s, h) == <<s, h>>

\* base_path.exists()
FileExists(files, path) == \E f \in files : f.path = path

\* json.load(file)
Load(files, path) == (CHOOSE f \in files : f.path = path).content

\* base_path.write_text(json.dumps(result, indent=2))
WriteText(files, path, text) ==
    {f \in files : f.path # path} \cup {[path |-> path, content |-> text]}

NoOutputs == [s \in Range(Stages) |-> ""]
NoCalls   == [s \in Range(Stages) |-> 0]

PipelineIdle ==
    /\ store = {} /\ store_at_start = {} /\ run = 0 /\ step = "idle"
    /\ config = NoConfig /\ last_commit = <<>> /\ hash = <<>>
    /\ outputs = NoOutputs /\ invoked = NoCalls /\ run_error = ""
    /\ llm_called = FALSE /\ exported = FALSE /\ history = <<>>
    /\ generator_iterated = FALSE /\ answers = {}

(***************************************************************************)
(* SpecUnify: SummarizerInterface._unify_and_summarize                     *)
(*                                                                         *)
(* A text is a sequence of tokens, and estimate_tokens counts them.  An    *)
(* optional threshold is <<>> (None) or <<n>>.                             *)
(***************************************************************************)
MaxDescriptions == 2     \* commits handed to one call
MaxThreshold    == 5     \* the largest ceiling tried

Descriptions == {<<>>, <<"word">>, <<"word", "word">>}

Thresholds == {<<>>} \cup {<<n>> : n \in 0..MaxThreshold}

\* ". ".join(descriptions)
RECURSIVE Join(_)
Join(descriptions) ==
    IF descriptions = <<>> THEN <<>>
    ELSE IF Len(descriptions) = 1 THEN Head(descriptions)
    ELSE Head(descriptions) \o <<". ">> \o Join(Tail(descriptions))

\* SummarizerInterface._combine_descriptions; "fence" is the triple backquote
combine_descriptions(cs) == <<"fence">> \o Join(cs) \o <<"fence">>

\* ModelInterface.estimate_tokens
estimate_tokens(text) == Len(text)

\* A mutant of ExceedsThreshold: a text at the ceiling is refused too.
ExceedsThreshold_AtCeiling(token_estimate, threshold) ==
    threshold # <<>> /\ token_estimate >= threshold[1]

\* max_token_threshold is not None and token_estimate > max_token_threshold
ExceedsThreshold(token_estimate, threshold) ==
    threshold # <<>> /\ token_estimate > threshold[1]

\* prompt.replace("[MESSAGES]", combined_descriptions)
BuildPrompt(combined_descriptions) ==
    <<"Summarize: ">> \o combined_descriptions

UnifyIdle ==
    /\ commits = <<>> /\ max_token_threshold = <<>> /\ unify_pc = "idle"
    /\ generate_calls = 0 /\ prompt_sent = <<>>

(***************************************************************************)
(* CustomDatetime.process_input_dates and the dates of collect_inputs      *)
(*                                                                         *)
(* A date string is a sequence of characters; <<>> is a bound that was not *)
(* given (None or ""; both are falsy).                                     *)
(***************************************************************************)
Digits  == <<"0", "1", "2", "3", "4", "5", "6", "7", "8", "9">>
NonZero == Range(Digits) \ {"0"}

\* int(c), of one digit
DigitValue(c) == (CHOOSE i \in 1..Len(Digits) : Digits[i] = c) - 1

\* int(s): a run of digits, possibly after blanks
RECURSIVE IntOf(_)
IntOf(s) ==
    IF s = <<>> THEN 0
    ELSE IF s[Len(s)] = " " THEN IntOf(SubSeq(s, 1, Len(s) - 1))
    ELSE 10 * IntOf(SubSeq(s, 1, Len(s) - 1)) + DigitValue(s[Len(s)])

\* %Y of _strptime: \d\d\d\d
MatchesYear(s) == Len(s) = 4 /\ \A i \in 1..4 : s[i] \in Range(Digits)

\* %m of _strptime: 1[0-2]|0[1-9]|[1-9]
MatchesMonth(s) ==
    \/ Len(s) = 2 /\ s[1] = "1" /\ s[2] \in {"0", "1", "2"}
    \/ Len(s) = 2 /\ s[1] = "0" /\ s[2] \in NonZero
    \/ Len(s) = 1 /\ s[1] \in NonZero

\* %d of _strptime: 3[0-1]|[1-2]\d|0[1-9]|[1-9]| [1-9]
MatchesDay(s) ==
    \/ Len(s) = 2 /\ s[1] = "3" /\ s[2] \in {"0", "1"}
    \/ Len(s) = 2 /\ s[1] \in {"1", "2"} /\ s[2] \in Range(Digits)
    \/ Len(s) = 2 /\ s[1] = "0" /\ s[2] \in NonZero
    \/ Len(s) = 1 /\ s[1] \in NonZero
    \/ Len(s) = 2 /\ s[1] = " " /\ s[2] \in NonZero

\* The (month, day) field widths under which s matches "%Y-%m-%d" with no
\* data left over.
FieldWidths(s) ==
    {w \in {1, 2} \X {1, 2} :
        /\ Len(s) = 6 + w[1] + w[2]
        /\ MatchesYear(SubSeq(s, 1, 4))
        /\ s[5] = "-"
        /\ MatchesMonth(SubSeq(s, 6, 5 + w[1]))
        /\ s[6 + w[1]] = "-"
        /\ MatchesDay(SubSeq(s, 7 + w[1], 6 + w[1] + w[2]))}

\* datetime.strptime(date, "%Y-%m-%d"): the midnight of the day, or ValueError
\* (no match, data left over, or no such day).
Strptime(s) ==
    IF FieldWidths(s) = {} THEN Raised("ValueError")
    ELSE LET w == CHOOSE w \in FieldWidths(s) : TRUE
             y == IntOf(SubSeq(s, 1, 4))
             m == IntOf(SubSeq(s, 6, 5 + w[1]))
             d == IntOf(SubSeq(s, 7 + w[1], 6 + w[1] + w[2]))
         IN  IF y >= 1 /\ d <= DaysInMonth(y, m) THEN Returned(Date(y, m, d))
             ELSE Raised("ValueError")

\* CustomDatetime._validate_input_date, called on a bound that was given
validate_input_date(date) == Strptime(date)

NoDates == [start_date |-> <<>>, end_date |-> <<>>]

\* CustomDatetime.process_input_dates
process_input_dates(start_date, end_date) ==
    LET start_date_obj == IF start_date # <<>> THEN validate_input_date(start_date)
                          ELSE Returned(<<>>)
        end_date_obj   == IF end_date # <<>> THEN validate_input_date(end_date)
                          ELSE Returned(<<>>)
    IN  IF start_date_obj.status # "ok" THEN start_date_obj
        ELSE IF end_date_obj.status # "ok" THEN end_date_obj
        ELSE IF /\ start_date # <<>> /\ end_date # <<>>
                /\ ToOrdinal(start_date_obj.value) > ToOrdinal(end_date_obj.value)
        THEN Raised("ValueError")
        ELSE Returned([start_date |-> IF start_date = <<>> THEN <<>>
                                      ELSE <<start_date_obj.value>>,
                       end_date   |-> IF end_date = <<>> THEN <<>>
                                      ELSE <<end_date_obj.value>>])

\* A mutant of StoredDates: one bound is enough for the dates to be processed.
StoredDates_EitherGiven(start_date, end_date) ==
    IF start_date # <<>> \/ end_date # <<>>
    THEN process_input_dates(start_date, end_date)
    ELSE Returned(NoDates)

\* collect_inputs, "if start_date and end_date": self.start_date and
\* self.end_date after it, None as __init__ left them unless both were given.
StoredDates(start_date, end_date) ==
    IF start_date # <<>> /\ end_date # <<>>
    THEN process_input_dates(start_date, end_date)
    ELSE Returned(NoDates)

\* The answers to the two date prompts: a year, a month and a day written in
\* several ways, with one of two separators, or nothing.
YearStrings  == { <<"2", "0", "2", "3">>, <<"2", "0", "2", "4">> }
MonthStrings == { <<"0", "2">>, <<"2">>, <<"1", "3">> }
DayStrings   == { <<"0", "5">>, <<"5">>, <<" ", "5">>, <<"3", "0">> }
Separators   == { "-", "/" }
DateStrings  ==
    { <<>> } \cup
    { y \o <<sep>> \o m \o <<sep>> \o d :
        y \in YearStrings, m \in MonthStrings, d \in DayStrings, sep \in Separators }

DatesIdle ==
    /\ input_start = <<>> /\ input_end = <<>> /\ dates_pc = "idle"
    /\ dates = Raised("")

(***************************************************************************)
(* TechnologyDetector.detect: what it makes of the model's response        *)
(*                                                                         *)
(* A response is a sequence of characters.  A parsed JSON value is         *)
(* [kind, body]: an object's body is its members [key, value] in order, a  *)
(* string's its characters, a number's its digits.                         *)
(***************************************************************************)
Quote == "\""
\* The backquote, which a string of this language cannot hold, is written ^.
Fence == "^"

JsonWhitespace == {" ", "\n", "\t", "\r"}

\* what str.strip() strips, of the characters in play
Blanks == {" ", "\n", "\t", "\r"}

Parsed(v, next) == [ok |-> TRUE, value |-> v, next |-> next]
NoParse         == [ok |-> FALSE, value |-> <<>>, next |-> 0]

\* The first position from i on that holds no JSON whitespace.
RECURSIVE SkipWhitespace(_, _)
SkipWhitespace(s, i) ==
    IF i <= Len(s) /\ s[i] \in JsonWhitespace THEN SkipWhitespace(s, i + 1) ELSE i

\* The first position from i on that is past s or holds a character outside S.
RECURSIVE SkipWhile(_, _, _)
SkipWhile(s, i, S) ==
    IF i <= Len(s) /\ s[i] \in S THEN SkipWhile(s, i + 1, S) ELSE i

\* A string: a quote, characters other than a quote or a control character,
\* a quote.  (The responses hold no backslash.)
ParseString(s, i) ==
    IF i > Len(s) \/ s[i] # Quote THEN NoParse
    ELSE LET close == SkipWhile(s, i + 1, Range(s) \ {Quote, "\n", "\t", "\r"})
         IN  IF close <= Len(s) /\ s[close] = Quote
             THEN Parsed([kind |-> "string", body |-> SubSeq(s, i + 1, close - 1)],
                         close + 1)
             ELSE NoParse

\* A number: a run of digits that does not start with a superfluous 0.
ParseNumber(s, i) ==
    LET end == SkipWhile(s, i, Range(Digits))
    IN  IF end = i \/ (s[i] = "0" /\ end > i + 1) THEN NoParse
        ELSE Parsed([kind |-> "number", body |-> SubSeq(s, i, end - 1)], end)

\* dict[key] = value: a repeated key keeps its place and takes the new value
SetMember(members, k, v) ==
    IF \E n \in 1..Len(members) : members[n].key = k
    THEN [n \in 1..Len(members) |->
             IF members[n].key = k THEN [key |-> k, value |-> v] ELSE members[n]]
    ELSE Append(members, [key |-> k, value |-> v])

RECURSIVE ParseValue(_, _)
RECURSIVE ParseMembers(_, _, _)

\* The members of an object from position i, which holds the quote of a key,
\* to the closing brace.
ParseMembers(s, i, members) ==
    LET key == ParseString(s, i)
    IN  IF ~key.ok THEN NoParse
        ELSE LET colon == SkipWhitespace(s, key.next)
             IN  IF colon > Len(s) \/ s[colon] # ":" THEN NoParse
                 ELSE LET v == ParseValue(s, SkipWhitespace(s, colon + 1))
                      IN  IF ~v.ok THEN NoParse
                          ELSE LET after == SkipWhitespace(s, v.next)
                                   so_far == SetMember(members, key.value.body, v.value)
                               IN  IF after > Len(s) THEN NoParse
                                   ELSE IF s[after] = "}"
                                   THEN Parsed([kind |-> "object", body |-> so_far],
                                               after + 1)
                                   ELSE IF s[after] = ","
                                   THEN ParseMembers(s, SkipWhitespace(s, after + 1),
                                                     so_far)
                                   ELSE NoParse

\* A JSON value at position i.
ParseValue(s, i) ==
    IF i > Len(s) THEN NoParse
    ELSE IF s[i] = "{"
    THEN LET first == SkipWhitespace(s, i + 1)
         IN  IF first <= Len(s) /\ s[first] = "}"
             THEN Parsed([kind |-> "object", body |-> <<>>], first + 1)
             ELSE ParseMembers(s, first, <<>>)
    ELSE IF s[i] = Quote THEN ParseString(s, i)
    ELSE ParseNumber(s, i)

\* json.loads(s): the value, or JSONDecodeError (nothing to parse, or data
\* left over)
JsonLoads(s) ==
    LET v == ParseValue(s, SkipWhitespace(s, 1))
    IN  IF v.ok /\ SkipWhitespace(s, v.next) > Len(s) THEN Returned(v.value)
        ELSE Raised("JSONDecodeError")

\* str.strip(chars), str.rstrip(chars)
RECURSIVE RStripChars(_, _)
RStripChars(s, chars) ==
    IF s # <<>> /\ s[Len(s)] \in chars THEN RStripChars(SubSeq(s, 1, Len(s) - 1), chars)
    ELSE s

RECURSIVE LStripChars(_, _)
LStripChars(s, chars) ==
    IF s # <<>> /\ Head(s) \in chars THEN LStripChars(Tail(s), chars) ELSE s

StripChars(s, chars) == RStripChars(LStripChars(s, chars), chars)

\* s.endswith(c)
EndsWith(s, c) == s # <<>> /\ s[Len(s)] = c

EmptyMap == [kind |-> "object", body |-> <<>>]

\* response.strip(fence + "json").strip(fence).strip(), fence being three
\* backquotes
CleanedResponse(text) ==
    StripChars(StripChars(StripChars(text, {Fence, "j", "s", "o", "n"}), {Fence}),
               Blanks)

\* The response after the two repairs of the except branch.
RepairedResponse(text) ==
    LET no_comma == IF EndsWith(StripChars(text, Blanks), ",")
                    THEN RStripChars(StripChars(text, Blanks), {","})
                    ELSE text
    IN  IF ~EndsWith(StripChars(no_comma, Blanks), "}")
        THEN no_comma \o <<"}">>
        ELSE no_comma

\* A mutant of detect: the second JSONDecodeError is not caught.
detect_NoFallback(text) ==
    LET first == JsonLoads(StripChars(CleanedResponse(text), Blanks))
    IN  IF first.status = "ok" THEN first
        ELSE JsonLoads(RepairedResponse(text))

\* TechnologyDetector.detect, from the model's response on
detect(text) ==
    LET first == JsonLoads(StripChars(CleanedResponse(text), Blanks))
    IN  IF first.status = "ok" THEN first
        ELSE LET second == JsonLoads(RepairedResponse(text))
             IN  IF second.status = "ok" THEN second ELSE Returned(EmptyMap)

\* The model's responses: an object, whole, cut short or with something
\* after it, or no object at all; bare or between fences; with or without
\* something trailing.
ResponseBodies ==
    { <<"{", Quote, "a", Quote, ":", "5", "}">>,
      <<"{", Quote, "a", Quote, ":", " ", "6", "0", ",", " ", Quote, "b", Quote, ":", "4", "0", "}">>,
      <<"{", Quote, "a", Quote, ":", "6", "0", ",", Quote, "b", Quote, ":", "4", "0">>,
      <<"{", Quote, "a", Quote, ":", "5">>,
      <<"{", Quote, "a", Quote, ":", "5", ",", Quote, "b", Quote>>,
      <<"{", Quote, "a", Quote, ":">>,
      <<"{", Quote, "a">>,
      <<"{", "}">>,
      <<"{">>,
      <<>>,
      <<"5">>,
      <<Quote, "a", Quote>>,
      <<"{", Quote, "a", Quote, ":", "5", "}", "}">>,
      <<"n", "o">> }
ResponsePrefixes == { <<>>, <<Fence, Fence, Fence, "j", "s", "o", "n", "\n">> }
ResponseSuffixes == { <<>>, <<",">>, <<" ">>, <<"\n", Fence, Fence, Fence>>, <<",", "\n">> }
Responses ==
    { p \o b \o x : p \in ResponsePrefixes, b \in ResponseBodies, x \in ResponseSuffixes }

DetectIdle == response = <<>> /\ detect_pc = "idle" /\ technologies = Raised("")

(***************************************************************************)
(* Openai.generate and its CacheManager                                    *)
(*                                                                         *)
(* The Redis store maps a prompt (its SHA-256 key) to <<>> or <<text>>.    *)
(***************************************************************************)
MaxCalls == 2        \* calls of generate on one provider

max_retries == 15

Prompts      == {"p", "q"}
ApiResponses == {"", "text"}     \* message.content of a completion

EmptyStore == [p \in Prompts |-> <<>>]

\* CacheManager.get: None without a client, on a ConnectionError, and for a
\* value that is falsy.
CacheGet(client, up, stored, prompt) ==
    IF client = "none" THEN <<>>
    ELSE IF ~up THEN <<>>
    ELSE IF stored[prompt] # <<>> /\ stored[prompt][1] # "" THEN stored[prompt]
    ELSE <<>>

\* CacheManager.set: nothing without a client or on a ConnectionError.
CacheSet(client, up, stored, prompt, text) ==
    IF client = "none" \/ ~up THEN stored
    ELSE [stored EXCEPT ![prompt] = <<text>>]

\* A mutant of CanRetry: one more turn of the loop.
CanRetry_OneMore(count) == count <= max_retries

\* while retry_count < max_retries
CanRetry(count) == count < max_retries

ProviderIdle ==
    /\ redis = "none" /\ reachable = FALSE /\ cache_store = EmptyStore
    /\ store_at_call = EmptyStore
    /\ provider_pc = "off" /\ call = [prompt |-> "", cache |-> FALSE]
    /\ retry_count = 0 /\ requests = 0 /\ outcome = "" /\ answer = <<>>
    /\ call_count = 0

CallsIdle == DatesIdle /\ DetectIdle /\ ProviderIdle

ExtractIdle ==
    /\ repo = [path |-> "", bare |-> FALSE, heads |-> <<>>]
    /\ args = [author_email |-> {}, start_date |-> <<>>, end_date |-> <<>>,
               page_size |-> 1, repo_branches |-> <<>>,
               ignore_commit_keywords |-> <<>>]
    /\ pc = "idle" /\ raised = ""
    /\ branches_to_iterate = <<>> /\ branch_pos = 0 /\ commit_pos = 0
    /\ batch = <<>> /\ yielded = <<>>

NormInit ==
    /\ \E es \in SeqsOf([tech : Techs, weight : Weights], 0, MaxEntries), k \in 1..MaxMaps :
          \E f \in Cuts(Len(es), k) :
             /\ \A m \in 1..k : DistinctKeys(GroupOf(es, f, k)[m])
             /\ group = GroupOf(es, f, k)
    /\ level = "none"
    /\ result = Raised("")
    /\ AggIdle
    /\ ExtractIdle
    /\ PipelineIdle
    /\ UnifyIdle
    /\ CallsIdle

CallWeeklyConsolidate ==
    /\ level = "none"
    /\ level' = "weekly"
    /\ \E pick \in Picks(group) : result' = WeeklyConsolidate(group, pick)
    /\ UNCHANGED <<group, aggVars, extractVars, pipeVars, unifyVars, callVars>>

CallMonthlyConsolidate ==
    /\ level = "none"
    /\ level' = "monthly"
    /\ \E pick \in Picks(group) : result' = MonthlyConsolidate(group, pick)
    /\ UNCHANGED <<group, aggVars, extractVars, pipeVars, unifyVars, callVars>>

NormNext == CallWeeklyConsolidate \/ CallMonthlyConsolidate

SpecNorm == NormInit /\ [][NormNext]_vars

\* The same calls on groups whose weights are drawn from ResidualWeights.
ResidualInit ==
    /\ \E es \in SeqsOf([tech : Techs, weight : ResidualWeights], 0, MaxEntries),
          k \in 1..MaxMaps :
          \E f \in Cuts(Len(es), k) :
             /\ \A m \in 1..k : DistinctKeys(GroupOf(es, f, k)[m])
             /\ group = GroupOf(es, f, k)
    /\ level = "none"
    /\ result = Raised("")
    /\ AggIdle
    /\ ExtractIdle
    /\ PipelineIdle
    /\ UnifyIdle
    /\ CallsIdle

SpecResidual == ResidualInit /\ [][NormNext]_vars

\* The same calls on one map with a large weight among weights of 1: shares
\* of 0.005..0.01 beside one of nearly 100.
MaxSmall      == 4
SkewedWeights == 16190..16199

SkewedMap(n, big, at) == [i \in 1..(n + 1) |-> Entry(i, IF i = at THEN big ELSE 1)]

SkewInit ==
    /\ \E n \in 0..MaxSmall, big \in SkewedWeights :
          \E at \in 1..(n + 1) : group = << SkewedMap(n, big, at) >>
    /\ level = "none"
    /\ result = Raised("")
    /\ AggIdle
    /\ ExtractIdle
    /\ PipelineIdle
    /\ UnifyIdle
    /\ CallsIdle

SpecSkew == SkewInit /\ [][NormNext]_vars

(***************************************************************************)
(* SpecAgg: commits -> daily -> weekly -> monthly buckets                  *)
(***************************************************************************)
AggInit ==
    /\ \E n \in 0..MaxCommits, size \in {1, MaxCommits} :
         \E first \in 0..(WindowDays - 1), offs \in [2..n -> (0 - MaxSpan)..MaxSpan] :
            commits_generator =
                Pages([i \in 1..n |->
                          [date |-> FromOrdinal(ToOrdinal(FirstDate) + first
                                                + (IF i = 1 THEN 0 ELSE offs[i]))]],
                      size)
    /\ stage = "start"
    /\ failure = ""
    /\ daily_summaries = <<>>
    /\ weekly_summaries = <<>>
    /\ monthly_summaries = <<>>
    /\ NormIdle
    /\ ExtractIdle
    /\ PipelineIdle
    /\ UnifyIdle
    /\ CallsIdle

\* A stage raises: the run ends and the stages' results are gone with it.
Abort(e) ==
    /\ stage' = "failed"
    /\ failure' = e
    /\ daily_summaries' = <<>>
    /\ weekly_summaries' = <<>>
    /\ monthly_summaries' = <<>>
    /\ UNCHANGED commits_generator

\* DailySummarizer.summarize
DailySummarize ==
    /\ stage = "start"
    /\ LET summaries == DayGroups(commits_generator)
       IN  \/ \E detected \in [1..Len(summaries) -> DetectorMaps] :
                /\ daily_summaries' = DailyBuckets(summaries, detected)
                /\ stage' = "daily"
                /\ UNCHANGED <<commits_generator, failure, weekly_summaries,
                               monthly_summaries>>
           \/ summaries # <<>> /\ Abort("CollaboratorFailure")   \* a model call raises
    /\ UNCHANGED <<normVars, extractVars, pipeVars, unifyVars, callVars>>

\* WeeklySummarizer.summarize
WeeklySummarize ==
    /\ stage = "daily"
    /\ LET summaries == WeekGroups(daily_summaries)
           error     == WeeklyError(summaries)
       IN  \/ /\ error = ""
              /\ \E picks \in GroupPicks(summaries) :
                    weekly_summaries' = WeeklyBuckets(summaries, picks)
              /\ stage' = "weekly"
              /\ UNCHANGED <<commits_generator, failure, daily_summaries,
                             monthly_summaries>>
           \/ error # "" /\ Abort(error)       \* _consolidate_technologies raises
           \/ summaries # <<>> /\ Abort("CollaboratorFailure")
    /\ UNCHANGED <<normVars, extractVars, pipeVars, unifyVars, callVars>>

\* MonthlySummarizer.summarize
MonthlySummarize ==
    /\ stage = "weekly"
    /\ LET summaries == MonthGroups(weekly_summaries)
       IN  \/ /\ \E picks \in GroupPicks(summaries) :
                    monthly_summaries' = MonthlyBuckets(summaries, picks)
              /\ stage' = "monthly"
              /\ UNCHANGED <<commits_generator, failure, daily_summaries,
                             weekly_summaries>>
           \/ summaries # <<>> /\ Abort("CollaboratorFailure")
    /\ UNCHANGED <<normVars, extractVars, pipeVars, unifyVars, callVars>>

AggNext == DailySummarize \/ WeeklySummarize \/ MonthlySummarize

SpecAgg == AggInit /\ [][AggNext]_vars

(***************************************************************************)
(* Claims about the normalizer (SpecNorm)                                  *)
(***************************************************************************)
\* The summed weight of the group handed to the call.
GroupTotal == TotalWeight(CollectWeights(<<>>, group))
ResultSum  == TotalWeight(result.value)

\* C2: for a group whose summed weights are positive, the map returned by the
\* weekly and by the monthly _consolidate_technologies sums to exactly 100.00.
C2_WeightSum ==
    (level # "none" /\ GroupTotal > 0) =>
        (result.status = "ok" /\ ResultSum = HundredPercent)

\* C2 witness: equal thirds, one entry absorbing the 0.01 residual.
C2_Witness ==
    /\ level = "weekly"
    /\ group = << <<Entry(2, 1), Entry(1, 1)>>, <<Entry(3, 1)>> >>
    /\ result = Returned(<<Entry(1, 3333), Entry(2, 3334), Entry(3, 3333)>>)

\* C3: consolidating a group whose maps are all empty or all zero-weight
\* returns an empty map, at the weekly and at the monthly level, without an
\* error.  (Violated by the weekly level.)
C3_ZeroWeightEmptyMap ==
    (level # "none" /\ GroupTotal = 0) => result = Returned(<<>>)

(***************************************************************************)
(* Claims about the summarizers (SpecAgg)                                  *)
(***************************************************************************)
\* The number of commits handed to the daily summarizer.
NumCommits == Len(Flatten(commits_generator))

DailyDone   == stage \in {"daily", "weekly", "monthly"}
WeeklyDone  == stage \in {"weekly", "monthly"}
MonthlyDone == stage = "monthly"

\* C1: the commit_count of the daily buckets sums to the number of commits
\* handed in, and so does that of the weekly buckets made from them and that
\* of the monthly buckets made from those.
C1_CountConservation ==
    /\ DailyDone   => TotalCommits(daily_summaries) = NumCommits
    /\ WeeklyDone  => TotalCommits(weekly_summaries) = NumCommits
    /\ MonthlyDone => TotalCommits(monthly_summaries) = NumCommits

\* C1 witness: two commits of one day, in two batches, counted through all
\* three levels.
C1_Witness ==
    /\ MonthlyDone
    /\ Len(commits_generator) = 2
    /\ Len(daily_summaries) = 1
    /\ daily_summaries[1].commit_count = 2
    /\ TotalCommits(monthly_summaries) = 2

IsLastDayOf31(dt) == dt.d = 31
NextDay(dt) == AddDays(dt, 1)

\* C4: a commit on the last day of a 31-day month and one on the first day of
\* the next month are counted in two different monthly buckets.  (Violated:
\* the month of a bucket is that of the Monday of its week.)
C4_MonthBoundary ==
    (/\ MonthlyDone
     /\ NumCommits = 2
     /\ LET cs == Flatten(commits_generator)
        IN  IsLastDayOf31(cs[1].date) /\ cs[2].date = NextDay(cs[1].date))
    => (/\ Len(monthly_summaries) = 2
        /\ monthly_summaries[1].commit_count = 1
        /\ monthly_summaries[2].commit_count = 1)

\* The daily buckets dated from a weekly bucket's start_date to its end_date.
DaysWithin(w) ==
    SelectSeq(daily_summaries,
              LAMBDA x : /\ ToOrdinal(w.start_date) <= ToOrdinal(x.date)
                         /\ ToOrdinal(x.date) <= ToOrdinal(w.end_date))

\* C5: a Sunday's commit and the following Monday's are in different weekly
\* buckets, and every weekly bucket starts on a Monday, ends six days later,
\* on the Sunday, and counts the commits of the days from the one to the other.
C5_WeekBoundary ==
    WeeklyDone =>
        /\ \A i \in 1..Len(weekly_summaries) :
              /\ Weekday(weekly_summaries[i].start_date) = 0
              /\ ToOrdinal(weekly_summaries[i].end_date)
                    = ToOrdinal(weekly_summaries[i].start_date) + 6
              /\ Weekday(weekly_summaries[i].end_date) = 6
        /\ \A a, b \in 1..Len(weekly_summaries) :
              a # b => weekly_summaries[a].start_date # weekly_summaries[b].start_date
        /\ \A a \in 1..Len(weekly_summaries) :
              weekly_summaries[a].commit_count = TotalCommits(DaysWithin(weekly_summaries[a]))
        /\ \A i, j \in 1..Len(daily_summaries) :
              (/\ Weekday(daily_summaries[i].date) = 6
               /\ daily_summaries[j].date = NextDay(daily_summaries[i].date))
              => \E a, b \in 1..Len(weekly_summaries) :
                    /\ a # b
                    /\ daily_summaries[i] \in Range(DaysWithin(weekly_summaries[a]))
                    /\ daily_summaries[j] \in Range(DaysWithin(weekly_summaries[b]))

\* C5 witness: a Sunday and the Monday after it, in two weekly buckets.
C5_Witness ==
    /\ WeeklyDone
    /\ Len(daily_summaries) = 2
    /\ Weekday(daily_summaries[1].date) = 6
    /\ daily_summaries[2].date = NextDay(daily_summaries[1].date)
    /\ Len(weekly_summaries) = 2

\* C6: every monthly bucket starts on the first of its month, ends on that
\* month's last calendar day, and is labelled with the year and month of its
\* start.
C6_MonthBounds ==
    MonthlyDone =>
        \A i \in 1..Len(monthly_summaries) :
            LET b == monthly_summaries[i]
            IN  /\ b.start_date.d = 1
                /\ b.end_date = Date(b.start_date.y, b.start_date.m,
                                     DaysInMonth(b.start_date.y, b.start_date.m))
                /\ b.month = <<b.start_date.y, b.start_date.m>>
                /\ \E w \in Range(weekly_summaries) :
                      w.start_date.y = b.start_date.y /\ w.start_date.m = b.start_date.m

\* C6 witness: a bucket for February of a leap year, ending on the 29th.
C6_Witness ==
    /\ MonthlyDone
    /\ \E i \in 1..Len(monthly_summaries) :
          /\ monthly_summaries[i].month = <<2024, 2>>
          /\ monthly_summaries[i].end_date = Date(2024, 2, 29)

(***************************************************************************)
(* SpecExtract: CommitExtractor.extract_commits_by_author                  *)
(*                                                                         *)
(* The generator is followed statement by statement: the validation that   *)
(* runs on the first next(), then one step per iteration of the loops over *)
(* branches and commits.  None and the empty list are both <<>> (they are  *)
(* tested for truth only); an optional date is <<>> or <<day>>, the day    *)
(* counted from the epoch, and stands for that day's midnight.             *)
(***************************************************************************)
MaxHistory  == 3      \* commits on the longest branch
MaxPageSize == 2

SecondsPerDay == 86400

\* str.lower(), on the letters of the messages below
Lower(c) ==
    CASE c = "W" -> "w" [] c = "I" -> "i" [] c = "P" -> "p"
      [] c = "T" -> "t" [] c = "Y" -> "y" [] c = "O" -> "o"
      [] OTHER -> c

LowerStr(s) == [i \in 1..Len(s) |-> Lower(s[i])]

Whitespace == {" ", "\n", "\t"}

\* str.strip()
Strip(s) ==
    LET inked == {i \in 1..Len(s) : s[i] \notin Whitespace}
    IN  IF inked = {} THEN <<>>
        ELSE SubSeq(s, CHOOSE i \in inked : \A j \in inked : i <= j,
                       CHOOSE i \in inked : \A j \in inked : i >= j)

\* k in s
Contains(s, k) == \E i \in 0..(Len(s) - Len(k)) : SubSeq(s, i + 1, i + Len(k)) = k

\* CommitExtractor._is_relevant_commit: the keyword is compared as given,
\* only the message is lowercased.
is_relevant_commit(commit_message, irrelevant_keywords) ==
    LET message_lower == LowerStr(commit_message)
    IN  IF /\ irrelevant_keywords # <<>>
           /\ \E k \in 1..Len(irrelevant_keywords) :
                 Contains(message_lower, irrelevant_keywords[k])
        THEN FALSE
        ELSE IF Len(Strip(commit_message)) < 10 THEN FALSE
        ELSE TRUE

Me    == "me@example.com"
Other == "other@example.com"

Commit(h, p, day, secs, e, m) ==
    [hexsha |-> h, parents |-> p, committed_date |-> day * SecondsPerDay + secs,
     email |-> e, message |-> m]

\* The commits a history is drawn from, oldest first; hexsha is the position.
Pool ==
    <<
       Commit(1, 1, 1, 86399, Me,
              <<"a", "d", "d", " ", "p", "a", "r", "s", "e", "r", " ", "m", "o", "d", "u", "l", "e">>),
       Commit(2, 1, 2, 0, Me,
              <<"W", "I", "P", ":", " ", "a", "d", "d", " ", "c", "a", "c", "h", "i", "n", "g", " ", "l", "a", "y", "e", "r">>),
       Commit(3, 2, 2, 43200, Me,
              <<"m", "e", "r", "g", "e", " ", "b", "r", "a", "n", "c", "h", " ", "d", "e", "v", " ", "i", "n", "t", "o", " ", "m", "a", "i", "n">>),
       Commit(4, 1, 2, 86399, Me,
              <<"t", "y", "p", "o", " ", "f", "i", "x", " ", "f", "o", "r", " ", "h", "e", "a", "d", "e", "r">>),
       Commit(5, 1, 2, 3600, Other,
              <<"a", "d", "d", " ", "l", "o", "g", "i", "n", " ", "f", "o", "r", "m">>),
       Commit(6, 1, 2, 7200, Me,
              <<"f", "i", "x", " ", "t", "e", "s", "t", "s", "!">>),
       Commit(7, 1, 2, 9000, Me,
              <<" ", " ", "f", "i", "x", " ", "b", "u", "g", " ", "\n">>),
       Commit(8, 1, 3, 0, Me,
              <<"a", "d", "d", " ", "e", "x", "p", "o", "r", "t", " ", "c", "o", "m", "m", "a", "n", "d">>)
    >>

\* None, or the day most of the pool's commits were made on
DateBounds == { <<>>, <<2>> }

KeywordLists == { <<>>, << <<"t", "y", "p", "o">>, <<"W", "I", "P">> >> }

BranchFilters == { <<>>, <<"main">>, <<"main", "dev">>, <<"gone", "main">> }

\* The commits of S, oldest first.
History(S) == SelectSeq(Pool, LAMBDA c : c.hexsha \in S)

Branch(n, cs) == [name |-> n, commits |-> cs]

\* [b.name for b in repo.branches]
BranchNames(hs) == [i \in 1..Len(hs) |-> hs[i].name]

\* repo.iter_commits(branch, reverse=True)
IterCommits(hs, branch) ==
    LET i == CHOOSE j \in 1..Len(hs) : hs[j].name = branch IN hs[i].commits

\* A mutant of IsMerge: only octopus merges are skipped.
IsMerge_OctopusOnly(commit) == commit.parents > 2

\* len(commit.parents) > 1
IsMerge(commit) == commit.parents > 1

\* A mutant of TruncateToDay: the time of day is kept.
TruncateToDay_KeepTime(ts) == ts

\* datetime.fromtimestamp(ts).replace(hour=0, minute=0, second=0, microsecond=0)
TruncateToDay(ts) == ts - (ts % SecondsPerDay)

\* datetime.strptime(date, "%Y-%m-%d"): the day's midnight
Midnight(day) == day * SecondsPerDay

\* A mutant of BatchFull: a batch grows one commit past the page size.
BatchFull_OnePast(b, size) == Len(b) > size

\* len(batch) >= page_size
BatchFull(b, size) == Len(b) >= size

Repos ==
    {[path |-> "other", bare |-> FALSE, heads |-> <<>>],      \* no such directory
     [path |-> "plain", bare |-> FALSE, heads |-> <<>>],      \* a directory, no repository
     [path |-> "dir", bare |-> TRUE, heads |-> <<>>],         \* a bare repository
     [path |-> "dir", bare |-> FALSE, heads |-> <<>>]}        \* no commit yet
    \cup UNION {
        {[path |-> "dir", bare |-> FALSE, heads |-> <<Branch("main", History(S))>>]}
        \cup {[path |-> "dir", bare |-> FALSE,
               heads |-> <<Branch("dev", SubSeq(History(S), 1, n)),
                           Branch("main", History(S))>>] : n \in 1..Cardinality(S)}
        : S \in {T \in SUBSET (1..Len(Pool)) : Cardinality(T) \in 1..MaxHistory}}

Arguments ==
    [author_email : {{Me}},
     start_date : DateBounds,
     end_date : DateBounds,
     page_size : 1..MaxPageSize,
     repo_branches : BranchFilters,
     ignore_commit_keywords : KeywordLists]

\* The generator object exists; its body has not started.
ExtractInit ==
    /\ repo \in Repos
    /\ args \in Arguments
    /\ pc = "created"
    /\ raised = ""
    /\ branches_to_iterate = <<>>
    /\ branch_pos = 0
    /\ commit_pos = 0
    /\ batch = <<>>
    /\ yielded = <<>>
    /\ NormIdle
    /\ AggIdle
    /\ PipelineIdle
    /\ UnifyIdle
    /\ CallsIdle

\* repo_branches or [branch.name for branch in repo.branches]
BranchesToIterate ==
    IF args.repo_branches # <<>> THEN args.repo_branches ELSE BranchNames(repo.heads)

\* A mutant of ValidationError: only the path is validated.
ValidationError_PathOnly ==
    IF repo.path = "other" THEN "ValueError: Invalid repository path"
    ELSE IF repo.path = "plain" THEN "InvalidGitRepositoryError"
    ELSE ""

\* _get_or_clone_repo, Repo(repo_path) and the three validations, in the order
\* of the code.
ValidationError ==
    IF repo.path = "other" THEN "ValueError: Invalid repository path"
    ELSE IF repo.path = "plain" THEN "InvalidGitRepositoryError"
    ELSE IF repo.bare \/ repo.heads = <<>>
         THEN "ValueError: has no commits or is invalid"
    ELSE IF BranchesToIterate = <<>> THEN "ValueError: No branches found"
    ELSE ""

\* The continue statements of the commit loop, in the order of the code.
Skipped(commit) ==
    LET commit_date    == TruncateToDay(commit.committed_date)
        commit_message == Strip(commit.message)
    IN  \/ IsMerge(commit)
        \/ args.start_date # <<>> /\ commit_date < Midnight(args.start_date[1])
        \/ args.end_date # <<>> /\ commit_date > Midnight(args.end_date[1])
        \/ commit.email \notin args.author_email
        \/ ~is_relevant_commit(commit_message, args.ignore_commit_keywords)

CommitData(commit) ==
    [hash    |-> commit.hexsha,
     email   |-> commit.email,
     date    |-> TruncateToDay(commit.committed_date),
     message |-> Strip(commit.message)]

\* The first next(): the code up to the loop over the branches.
StartExtraction ==
    /\ pc = "created"
    /\ IF ValidationError # ""
       THEN /\ pc' = "raised"
            /\ raised' = ValidationError
            /\ UNCHANGED <<branches_to_iterate, branch_pos, commit_pos>>
       ELSE /\ pc' = "running"
            /\ branches_to_iterate' = BranchesToIterate
            /\ branch_pos' = 1
            /\ commit_pos' = 1
            /\ UNCHANGED raised
    /\ UNCHANGED <<repo, args, batch, yielded, normVars, aggVars, pipeVars, unifyVars, callVars>>

AtBranch == pc = "running" /\ branch_pos <= Len(branches_to_iterate)

BranchExists == branches_to_iterate[branch_pos] \in Range(BranchNames(repo.heads))

\* A mutant of SkipMissingBranch: the loop over the branches is left.
SkipMissingBranch_Break ==
    /\ AtBranch
    /\ ~BranchExists
    /\ branch_pos' = Len(branches_to_iterate) + 1
    /\ commit_pos' = 1
    /\ UNCHANGED <<repo, args, pc, raised, branches_to_iterate, batch, yielded,
                   normVars, aggVars, pipeVars, unifyVars, callVars>>

\* if branch not in [b.name for b in repo.branches]: continue
SkipMissingBranch ==
    /\ AtBranch
    /\ ~BranchExists
    /\ branch_pos' = branch_pos + 1
    /\ commit_pos' = 1
    /\ UNCHANGED <<repo, args, pc, raised, branches_to_iterate, batch, yielded,
                   normVars, aggVars, pipeVars, unifyVars, callVars>>

\* A mutant of VisitCommit: a commit whose hash was already collected is left
\* out.
VisitCommit_SkipSeen ==
    /\ AtBranch
    /\ BranchExists
    /\ commit_pos <= Len(IterCommits(repo.heads, branches_to_iterate[branch_pos]))
    /\ LET commit == IterCommits(repo.heads, branches_to_iterate[branch_pos])[commit_pos]
           filled == Append(batch, CommitData(commit))
           seen   == \E c \in Range(Flatten(yielded) \o batch) : c.hash = commit.hexsha
       IN  IF Skipped(commit) \/ seen
           THEN UNCHANGED <<batch, yielded>>
           ELSE IF BatchFull(filled, args.page_size)
                THEN yielded' = Append(yielded, filled) /\ batch' = <<>>
                ELSE batch' = filled /\ UNCHANGED yielded
    /\ commit_pos' = commit_pos + 1
    /\ UNCHANGED <<repo, args, pc, raised, branches_to_iterate, branch_pos,
                   normVars, aggVars, pipeVars, unifyVars, callVars>>

\* One iteration of the loop over the branch's commits.
VisitCommit ==
    /\ AtBranch
    /\ BranchExists
    /\ commit_pos <= Len(IterCommits(repo.heads, branches_to_iterate[branch_pos]))
    /\ LET commit == IterCommits(repo.heads, branches_to_iterate[branch_pos])[commit_pos]
           filled == Append(batch, CommitData(commit))
       IN  IF Skipped(commit)
           THEN UNCHANGED <<batch, yielded>>
           ELSE IF BatchFull(filled, args.page_size)
                THEN yielded' = Append(yielded, filled) /\ batch' = <<>>
                ELSE batch' = filled /\ UNCHANGED yielded
    /\ commit_pos' = commit_pos + 1
    /\ UNCHANGED <<repo, args, pc, raised, branches_to_iterate, branch_pos,
                   normVars, aggVars, pipeVars, unifyVars, callVars>>

\* The branch's commits are exhausted: the outer loop moves on.
EndOfBranch ==
    /\ AtBranch
    /\ BranchExists
    /\ commit_pos > Len(IterCommits(repo.heads, branches_to_iterate[branch_pos]))
    /\ branch_pos' = branch_pos + 1
    /\ commit_pos' = 1
    /\ UNCHANGED <<repo, args, pc, raised, branches_to_iterate, batch, yielded,
                   normVars, aggVars, pipeVars, unifyVars, callVars>>

\* After the loops: if batch: yield batch.
FinishExtraction ==
    /\ pc = "running"
    /\ branch_pos > Len(branches_to_iterate)
    /\ pc' = "done"
    /\ yielded' = IF batch # <<>> THEN Append(yielded, batch) ELSE yielded
    /\ batch' = <<>>
    /\ UNCHANGED <<repo, args, raised, branches_to_iterate, branch_pos, commit_pos,
                   normVars, aggVars, pipeVars, unifyVars, callVars>>

ExtractNext ==
    \/ StartExtraction
    \/ SkipMissingBranch
    \/ VisitCommit
    \/ EndOfBranch
    \/ FinishExtraction

SpecExtract == ExtractInit /\ [][ExtractNext]_vars

(***************************************************************************)
(* Properties of the extraction                                            *)
(***************************************************************************)
\* The commits the loops visit, in the order they visit them.
RECURSIVE Traversal(_)
Traversal(branches) ==
    IF branches = <<>> THEN <<>>
    ELSE (IF Head(branches) \in Range(BranchNames(repo.heads))
          THEN IterCommits(repo.heads, Head(branches))
          ELSE <<>>) \o Traversal(Tail(branches))

Qualifying == SelectSeq(Traversal(branches_to_iterate), LAMBDA c : ~Skipped(c))

YieldedData == Flatten(yielded)

YieldedHashes == {YieldedData[i].hash : i \in 1..Len(YieldedData)}

CeilDiv(n, p) == (n + p - 1) \div p

\* C7: batches that are yielded before the loops end hold exactly page_size
\* commits (none is flushed at a branch boundary); once the generator is
\* exhausted, N qualifying commits and page size P have given ceil(N/P)
\* batches, none empty, all of P commits but the last, which has
\* N - P * (ceil(N/P) - 1), and the batches concatenated are the qualifying
\* commits in traversal order.
C7_Pagination ==
    /\ pc = "running" =>
          \A i \in 1..Len(yielded) : Len(yielded[i]) = args.page_size
    /\ pc = "done" =>
          LET N == Len(Qualifying)
              P == args.page_size
              B == CeilDiv(N, P)
          IN  /\ Len(yielded) = B
              /\ \A i \in 1..Len(yielded) :
                    /\ yielded[i] # <<>>
                    /\ i < B => Len(yielded[i]) = P
                    /\ i = B => Len(yielded[i]) = N - P * (B - 1)
              /\ YieldedData = [i \in 1..N |-> CommitData(Qualifying[i])]

\* C7 witness: three qualifying commits over two branches with page size 2
\* came out as a full batch that straddles the branch boundary (the branches'
\* common commit, met on both) and a last batch of one.
C7_Witness ==
    /\ pc = "done"
    /\ args.page_size = 2
    /\ Len(branches_to_iterate) = 2
    /\ Len(yielded) = 2
    /\ Len(yielded[1]) = 2
    /\ yielded[1][1].hash = yielded[1][2].hash
    /\ Len(yielded[2]) = 1

\* C8: no commit with more than one parent is in the batch being filled or in
\* a yielded batch.
C8_MergeExclusion ==
    \A i \in 1..Len(YieldedData \o batch) :
        Pool[(YieldedData \o batch)[i].hash].parents <= 1

\* C8 witness: a merge by the author, in the date range and with a relevant
\* message, was visited, and the generator ended having yielded commits.
C8_Witness ==
    /\ pc = "done"
    /\ yielded # <<>>
    /\ \E c \in Range(Traversal(branches_to_iterate)) :
          /\ c.parents > 1
          /\ c.email \in args.author_email
          /\ args.start_date # <<>> /\ args.end_date # <<>>
          /\ c.committed_date \div SecondsPerDay = args.start_date[1]
          /\ is_relevant_commit(Strip(c.message), args.ignore_commit_keywords)

NotMerge(c)  == c.parents <= 1
ByAuthor(c)  == c.email \in args.author_email
DayOf(c)     == c.committed_date \div SecondsPerDay
InDateRange(c) ==
    /\ args.start_date = <<>> \/ args.start_date[1] <= DayOf(c)
    /\ args.end_date = <<>> \/ DayOf(c) <= args.end_date[1]

\* The exclusion rule as C9 words it: keyword and message both lowercased.
ExcludedAsIrrelevant(c) ==
    \/ Len(Strip(c.message)) < 10
    \/ \E k \in 1..Len(args.ignore_commit_keywords) :
          Contains(LowerStr(c.message), LowerStr(args.ignore_commit_keywords[k]))

\* C9: once the generator is exhausted, a visited commit that passes the
\* merge, date and author filters has been yielded if and only if its trimmed
\* message has at least 10 characters and its lowercased message contains the
\* lowercased form of no ignore keyword.
C9_RelevanceFilter ==
    pc = "done" =>
        \A c \in Range(Traversal(branches_to_iterate)) :
            (NotMerge(c) /\ ByAuthor(c) /\ InDateRange(c))
            => (c.hexsha \in YieldedHashes <=> ~ExcludedAsIrrelevant(c))

\* C10: a yielded commit carries the midnight of its calendar day, and once
\* the generator is exhausted, a visited commit that passes the merge, author
\* and relevance filters has been yielded if and only if its calendar day d
\* satisfies start_date <= d <= end_date, an absent bound not constraining.
C10_DateRange ==
    /\ \A i \in 1..Len(YieldedData) :
          YieldedData[i].date = Midnight(DayOf(Pool[YieldedData[i].hash]))
    /\ pc = "done" =>
          \A c \in Range(Traversal(branches_to_iterate)) :
              (/\ NotMerge(c) /\ ByAuthor(c)
               /\ is_relevant_commit(Strip(c.message), args.ignore_commit_keywords))
              => (c.hexsha \in YieldedHashes <=> InDateRange(c))

\* C10 witness: with start_date = end_date, the commit made at 23:59:59 of
\* that day was yielded, the one made a second before the day began was not,
\* and neither was the one made at the midnight that ends it.
C10_Witness ==
    /\ pc = "done"
    /\ args.start_date # <<>> /\ args.end_date = args.start_date
    /\ \E c \in Range(Traversal(branches_to_iterate)) :
          /\ c.committed_date = Midnight(args.start_date[1]) + SecondsPerDay - 1
          /\ c.hexsha \in YieldedHashes
    /\ \E c \in Range(Traversal(branches_to_iterate)) :
          /\ c.committed_date = Midnight(args.start_date[1]) - 1
          /\ c.hexsha \notin YieldedHashes
    /\ \E c \in Range(Traversal(branches_to_iterate)) :
          /\ c.committed_date = Midnight(args.end_date[1]) + SecondsPerDay
          /\ c.hexsha \notin YieldedHashes

\* The filters as the specification words them; relevance is the rule of C9.
PassesEveryFilter(c) ==
    /\ NotMerge(c)
    /\ InDateRange(c)
    /\ ByAuthor(c)
    /\ ~ExcludedAsIrrelevant(c)

\* C11: once the generator is exhausted, the yielded commits are, in traversal
\* order, exactly the visited commits that are non-merge, inside the date
\* range, by one of the author emails, and relevant.
C11_ExactFilter ==
    pc = "done" =>
        LET expected == SelectSeq(Traversal(branches_to_iterate), PassesEveryFilter)
        IN  YieldedData = [i \in 1..Len(expected) |-> CommitData(expected[i])]

\* The selected branches that the repository has, in selection order.
ExistingBranches ==
    SelectSeq(branches_to_iterate, LAMBDA b : b \in Range(BranchNames(repo.heads)))

HasMissingBranch == Len(ExistingBranches) < Len(branches_to_iterate)

RECURSIVE CommitsOf(_)
CommitsOf(branches) ==
    IF branches = <<>> THEN <<>>
    ELSE IterCommits(repo.heads, Head(branches)) \o CommitsOf(Tail(branches))

\* C12: when a selected branch is not in the repository, the generator does
\* not raise, and once it is exhausted it has yielded the qualifying commits of
\* the selected branches that exist, and nothing else.
C12_MissingBranchSkipped ==
    HasMissingBranch =>
        /\ pc # "raised"
        /\ pc = "done" =>
              LET expected == SelectSeq(CommitsOf(ExistingBranches),
                                        LAMBDA c : ~Skipped(c))
              IN  YieldedData = [i \in 1..Len(expected) |-> CommitData(expected[i])]

\* C12 witness: the missing branch came first in the selection and the
\* commits of the branch after it were yielded.
C12_Witness ==
    /\ pc = "done"
    /\ branches_to_iterate = <<"gone", "main">>
    /\ yielded # <<>>

InvalidOrEmpty == repo.path \in {"other", "plain"} \/ repo.bare \/ repo.heads = <<>>

\* C13: the generator that has raised has yielded nothing and holds nothing,
\* and on an invalid location or a repository without commits or branches it
\* never gets past its validation.
C13_FailBeforeExtraction ==
    /\ pc = "raised" => raised # "" /\ yielded = <<>> /\ batch = <<>>
    /\ InvalidOrEmpty => pc \in {"created", "raised"} /\ yielded = <<>>

\* C13 witness: a repository without commits, asked for a branch, has raised.
C13_Witness ==
    /\ pc = "raised"
    /\ repo.path = "dir" /\ ~repo.bare /\ repo.heads = <<>>
    /\ args.repo_branches # <<>>
    /\ raised = "ValueError: has no commits or is invalid"

(***************************************************************************)
(* SpecPipeline: initial state and actions                                 *)
(***************************************************************************)
PipelineInit ==
    /\ store = {} /\ store_at_start = {} /\ run = 0 /\ step = "off"
    /\ config = NoConfig
    /\ last_commit \in {<<>>, <<1>>}
    /\ hash = <<>>
    /\ outputs = NoOutputs /\ invoked = NoCalls /\ run_error = ""
    /\ llm_called = FALSE /\ exported = FALSE /\ history = <<>>
    /\ generator_iterated = FALSE
    /\ answers = Configs
    /\ NormIdle /\ AggIdle /\ ExtractIdle /\ UnifyIdle /\ CallsIdle

\* The except clauses of run(): the run is over, with the error e if any.
Finish(e, cfg, h, outs, calls) ==
    /\ step' = "off"
    /\ run_error' = e
    /\ history' = Append(history, [config |-> cfg, last_commit |-> last_commit,
                                   hash |-> h, outputs |-> outs, invoked |-> calls])

\* A mutant of StartRun: the run begins with an empty data directory.
StartRun_EmptiedData ==
    /\ step = "off"
    /\ run < MaxRuns
    /\ run' = run + 1
    /\ step' = "collect"
    /\ store' = {}
    /\ store_at_start' = {}
    /\ config' = NoConfig
    /\ hash' = <<>>
    /\ outputs' = NoOutputs
    /\ invoked' = NoCalls
    /\ generator_iterated' = FALSE
    /\ run_error' = ""
    /\ llm_called' = FALSE
    /\ exported' = FALSE
    /\ UNCHANGED <<last_commit, history, answers, normVars, aggVars, extractVars, unifyVars, callVars>>

\* CVGenerator() and the first statements of run().
StartRun ==
    /\ step = "off"
    /\ run < MaxRuns
    /\ run' = run + 1
    /\ step' = "collect"
    /\ store_at_start' = store
    /\ config' = NoConfig
    /\ hash' = <<>>
    /\ outputs' = NoOutputs
    /\ invoked' = NoCalls
    /\ generator_iterated' = FALSE
    /\ run_error' = ""
    /\ llm_called' = FALSE
    /\ exported' = FALSE
    /\ UNCHANGED <<store, last_commit, history, answers, normVars, aggVars, extractVars, unifyVars, callVars>>

\* Between two runs a commit lands on the repository's head.
CommitLands ==
    /\ step = "off"
    /\ run < MaxRuns
    /\ LET t == IF last_commit = <<>> THEN 1 ELSE last_commit[1] + 1
       IN  t <= MaxCommitDate /\ last_commit' = <<t>>
    /\ UNCHANGED <<store, store_at_start, run, step, config, hash, outputs, invoked,
                   generator_iterated, answers, run_error, llm_called, exported, history,
                   normVars, aggVars, extractVars, unifyVars, callVars>>

\* CVGenerator._collect_inputs; get_last_commit_date raises on a repository
\* without commits.
CollectInputs ==
    /\ step = "collect"
    /\ \E cfg \in answers :
          /\ config' = cfg
          /\ IF last_commit = <<>>
             THEN /\ hash' = hash
                  /\ Finish("ValueError", cfg, hash, outputs, invoked)
             ELSE /\ hash' = generate_hash(cfg, last_commit)
                  /\ step' = "context"
                  /\ UNCHANGED <<run_error, history>>
    /\ UNCHANGED <<store, store_at_start, run, last_commit, outputs, invoked,
                   generator_iterated, answers, llm_called, exported, normVars, aggVars, extractVars, unifyVars, callVars>>

\* _extract_commits (the generator is created, not started) and
\* _get_project_context, whose model call may raise.
GetProjectContext ==
    /\ step = "context"
    /\ \/ step' = "daily" /\ UNCHANGED <<run_error, history>>
       \/ Finish("Exception", config, hash, outputs, invoked)
    /\ UNCHANGED <<store, store_at_start, run, config, last_commit, hash, outputs,
                   invoked, generator_iterated, answers, llm_called, exported,
                   normVars, aggVars, extractVars, unifyVars, callVars>>

\* A mutant of process_and_save: the stored file is not looked up.
process_and_save_NoLookup(s, next) ==
    /\ invoked' = [invoked EXCEPT ![s] = @ + 1]
    /\ generator_iterated' = (generator_iterated \/ s = "daily")
    /\ \/ \E data \in Contents :
             /\ store' = WriteText(store, FilePath(s, hash), data)
             /\ outputs' = [outputs EXCEPT ![s] = data]
             /\ step' = next
             /\ UNCHANGED <<run_error, history>>
       \/ /\ Finish("Exception", config, hash, outputs, [invoked EXCEPT ![s] = @ + 1])
          /\ UNCHANGED <<store, outputs>>

\* A mutant of process_and_save: what summarize had built when it raised is
\* written to the file.
process_and_save_PartialWrite(s, next) ==
    IF FileExists(store, FilePath(s, hash))
    THEN /\ outputs' = [outputs EXCEPT ![s] = Load(store, FilePath(s, hash))]
         /\ step' = next
         /\ UNCHANGED <<store, invoked, generator_iterated, run_error, history>>
    ELSE /\ invoked' = [invoked EXCEPT ![s] = @ + 1]
         /\ generator_iterated' = (generator_iterated \/ s = "daily")
         /\ \/ \E data \in Contents :
                  /\ store' = WriteText(store, FilePath(s, hash), data)
                  /\ outputs' = [outputs EXCEPT ![s] = data]
                  /\ step' = next
                  /\ UNCHANGED <<run_error, history>>
            \/ /\ Finish("Exception", config, hash, outputs,
                         [invoked EXCEPT ![s] = @ + 1])
               /\ store' = WriteText(store, FilePath(s, hash), "partial")
               /\ UNCHANGED outputs

\* FileCache.process_and_save of the stage s, called from _summarize.
process_and_save(s, next) ==
    IF FileExists(store, FilePath(s, hash))
    THEN /\ outputs' = [outputs EXCEPT ![s] = Load(store, FilePath(s, hash))]
         /\ step' = next
         /\ UNCHANGED <<store, invoked, generator_iterated, run_error, history>>
    ELSE /\ invoked' = [invoked EXCEPT ![s] = @ + 1]     \* process_method(*process_args)
         \* DailySummarizer.summarize starts with "for batch in commits_generator"
         /\ generator_iterated' = (generator_iterated \/ s = "daily")
         /\ \/ \E data \in Contents :
                  /\ store' = WriteText(store, FilePath(s, hash), data)
                  /\ outputs' = [outputs EXCEPT ![s] = data]
                  /\ step' = next
                  /\ UNCHANGED <<run_error, history>>
            \/ /\ Finish("Exception", config, hash, outputs,      \* summarize raises
                         [invoked EXCEPT ![s] = @ + 1])
               /\ UNCHANGED <<store, outputs>>

SummarizeByDay ==
    /\ step = "daily"
    /\ process_and_save("daily", "weekly")
    /\ UNCHANGED <<store_at_start, run, config, last_commit, hash, llm_called,
                   exported, answers, normVars, aggVars, extractVars, unifyVars, callVars>>

SummarizeByWeek ==
    /\ step = "weekly"
    /\ process_and_save("weekly", "monthly")
    /\ UNCHANGED <<store_at_start, run, config, last_commit, hash, llm_called,
                   exported, answers, normVars, aggVars, extractVars, unifyVars, callVars>>

SummarizeByMonth ==
    /\ step = "monthly"
    /\ process_and_save("monthly", "llm")
    /\ UNCHANGED <<store_at_start, run, config, last_commit, hash, llm_called,
                   exported, answers, normVars, aggVars, extractVars, unifyVars, callVars>>

\* CVGenerator._llm_processing: the answer may not be valid JSON.
LlmProcessing ==
    /\ step = "llm"
    /\ llm_called' = TRUE
    /\ \/ step' = "export" /\ UNCHANGED <<run_error, history>>
       \/ Finish("Exception", config, hash, outputs, invoked)
    /\ UNCHANGED <<store, store_at_start, run, config, last_commit, hash, outputs,
                   invoked, generator_iterated, answers, exported, normVars, aggVars, extractVars, unifyVars, callVars>>

\* CVGenerator._export, the last statement of run().
Export ==
    /\ step = "export"
    /\ exported' = TRUE
    /\ \E e \in {"", "Exception"} : Finish(e, config, hash, outputs, invoked)
    /\ UNCHANGED <<store, store_at_start, run, config, last_commit, hash, outputs,
                   invoked, generator_iterated, answers, llm_called, normVars, aggVars, extractVars, unifyVars, callVars>>

PipelineNext ==
    \/ StartRun
    \/ CommitLands
    \/ CollectInputs
    \/ GetProjectContext
    \/ SummarizeByDay
    \/ SummarizeByWeek
    \/ SummarizeByMonth
    \/ LlmProcessing
    \/ Export

SpecPipeline == PipelineInit /\ [][PipelineNext]_vars

\* The runs of a user who changes only the answers that generate_hash does
\* not read.
FingerprintInit ==
    /\ store = {} /\ store_at_start = {} /\ run = 0 /\ step = "off"
    /\ config = NoConfig
    /\ last_commit \in {<<>>, <<1>>}
    /\ hash = <<>>
    /\ outputs = NoOutputs /\ invoked = NoCalls /\ run_error = ""
    /\ llm_called = FALSE /\ exported = FALSE /\ history = <<>>
    /\ generator_iterated = FALSE
    /\ answers = VariedConfigs
    /\ NormIdle /\ AggIdle /\ ExtractIdle /\ UnifyIdle /\ CallsIdle

SpecFingerprint == FingerprintInit /\ [][PipelineNext]_vars

(***************************************************************************)
(* Properties of the pipeline                                              *)
(***************************************************************************)
StagesAfter(s) ==
    CASE s = "daily"   -> {"weekly", "monthly"}
      [] s = "weekly"  -> {"monthly"}
      [] s = "monthly" -> {}

\* C14: no file that a run found is changed or removed; summarize runs at
\* most once per stage and run; and when process_and_save has returned for a
\* stage, either the run found the stage's file for its hash, summarize was
\* not invoked and the file's content was returned, or it did not, summarize
\* was invoked once and the file now holds what was returned.
C14_StageCache ==
    /\ store_at_start \subseteq store
    /\ \A s \in Range(Stages) :
          /\ invoked[s] <= 1
          /\ outputs[s] # "" =>
                IF FileExists(store_at_start, FilePath(s, hash))
                THEN /\ invoked[s] = 0
                     /\ outputs[s] = Load(store_at_start, FilePath(s, hash))
                ELSE /\ invoked[s] = 1
                     /\ FileExists(store, FilePath(s, hash))
                     /\ Load(store, FilePath(s, hash)) = outputs[s]

\* C14 witness: a second run took the daily result from the file the first
\* run had written and computed the weekly one, which the first had not.
C14_Witness ==
    /\ run = 2
    /\ outputs["daily"] # "" /\ invoked["daily"] = 0
    /\ outputs["weekly"] # "" /\ invoked["weekly"] = 1
    /\ FileExists(store_at_start, FilePath("daily", hash))

\* summarize was invoked for s in the current run and did not return.
RaisedIn(s) == invoked[s] = 1 /\ outputs[s] = ""

\* C15: when the summarize of a stage has raised, the stage has no file, no
\* later stage was run or got a file, and neither the LLM processing nor the
\* export was entered.
C15_AllOrNothing ==
    \A s \in Range(Stages) :
        RaisedIn(s) =>
            /\ step = "off" /\ run_error # ""
            /\ ~FileExists(store, FilePath(s, hash))
            /\ \A t \in StagesAfter(s) :
                  /\ invoked[t] = 0 /\ outputs[t] = ""
                  /\ ~FileExists(store, FilePath(t, hash))
            /\ ~llm_called
            /\ ~exported

\* C15 witness: the weekly stage raised after the daily one had completed.
C15_Witness ==
    /\ RaisedIn("weekly")
    /\ outputs["daily"] # ""
    /\ FileExists(store, FilePath("daily", hash))

\* The later of two runs took from the store every stage result the earlier
\* one had, without invoking summarize.
Reuses(later, earlier) ==
    \A s \in Range(Stages) :
        earlier.outputs[s] # "" =>
            /\ later.invoked[s] = 0
            /\ later.outputs[s] \in {"", earlier.outputs[s]}

UnifyInit ==
    /\ commits \in SeqsOf(Descriptions, 0, MaxDescriptions)
    /\ max_token_threshold \in Thresholds
    /\ unify_pc = "called"
    /\ generate_calls = 0
    /\ prompt_sent = <<>>
    /\ NormIdle /\ AggIdle /\ ExtractIdle /\ PipelineIdle /\ CallsIdle

\* One call of _unify_and_summarize, to its return or its exception.
UnifyAndSummarize ==
    /\ unify_pc = "called"
    /\ LET combined_descriptions == combine_descriptions(commits)
           token_estimate        == estimate_tokens(combined_descriptions)
       IN  IF ExceedsThreshold(token_estimate, max_token_threshold)
           THEN /\ unify_pc' = "ValueError"
                /\ UNCHANGED <<generate_calls, prompt_sent>>
           ELSE /\ generate_calls' = generate_calls + 1
                /\ prompt_sent' = BuildPrompt(combined_descriptions)
                /\ unify_pc' \in {"returned", "model error"}   \* self.model.generate
    /\ UNCHANGED <<commits, max_token_threshold, normVars, aggVars, extractVars,
                   pipeVars, callVars>>

UnifyNext == UnifyAndSummarize

SpecUnify == UnifyInit /\ [][UnifyNext]_vars

\* C17: a call that has ended raised ValueError, without calling generate, if
\* a ceiling was given and the token estimate of the combined text exceeds
\* it; otherwise it called generate exactly once, with the whole combined
\* text in the prompt.
C17_TokenCeiling ==
    LET combined == combine_descriptions(commits)
        over     == /\ max_token_threshold # <<>>
                    /\ Len(combined) > max_token_threshold[1]
    IN  /\ generate_calls <= 1
        /\ unify_pc # "called" =>
              IF over
              THEN unify_pc = "ValueError" /\ generate_calls = 0 /\ prompt_sent = <<>>
              ELSE /\ unify_pc \in {"returned", "model error"}
                   /\ generate_calls = 1
                   /\ SubSeq(prompt_sent, Len(prompt_sent) - Len(combined) + 1,
                             Len(prompt_sent)) = combined

\* C17 witness: a text of exactly as many tokens as the ceiling was summarized.
C17_Witness ==
    /\ unify_pc = "returned"
    /\ max_token_threshold = <<Len(combine_descriptions(commits))>>
    /\ Len(commits) = 2
    /\ generate_calls = 1

(***************************************************************************)
(* Further properties of the aggregation                                   *)
(***************************************************************************)
\* The distinct elements of a sequence, in the order of their first occurrence.
RECURSIVE FirstSeen(_)
FirstSeen(keys) ==
    IF keys = <<>> THEN <<>>
    ELSE LET before == FirstSeen(SubSeq(keys, 1, Len(keys) - 1))
         IN  IF keys[Len(keys)] \in Range(before) THEN before
             ELSE Append(before, keys[Len(keys)])

Before(d1, d2) == ToOrdinal(d1) < ToOrdinal(d2)

\* C18: at each level that has returned, the buckets' keys are the distinct
\* keys of the input in the order of their first occurrence (one bucket per
\* key, none for a key that is absent), and every bucket counts at least one
\* commit.
C18_OneBucketPerKey ==
    /\ DailyDone =>
          /\ [i \in 1..Len(daily_summaries) |-> daily_summaries[i].date]
                = FirstSeen([i \in 1..NumCommits |-> Flatten(commits_generator)[i].date])
          /\ \A i \in 1..Len(daily_summaries) : daily_summaries[i].commit_count >= 1
    /\ WeeklyDone =>
          /\ [i \in 1..Len(weekly_summaries) |-> weekly_summaries[i].start_date]
                = FirstSeen([i \in 1..Len(daily_summaries) |->
                                AddDays(daily_summaries[i].date,
                                        0 - Weekday(daily_summaries[i].date))])
          /\ \A i \in 1..Len(weekly_summaries) : weekly_summaries[i].commit_count >= 1
    /\ MonthlyDone =>
          /\ [i \in 1..Len(monthly_summaries) |-> monthly_summaries[i].start_date]
                = FirstSeen([i \in 1..Len(weekly_summaries) |->
                                ReplaceDay(weekly_summaries[i].start_date, 1)])
          /\ \A i \in 1..Len(monthly_summaries) : monthly_summaries[i].commit_count >= 1

\* C18 witness: the later of two commits came first in the input, and at all
\* three levels the later bucket comes first.
C18_Witness ==
    /\ MonthlyDone
    /\ Len(daily_summaries) = 2 /\ Len(weekly_summaries) = 2
    /\ Len(monthly_summaries) = 2
    /\ Before(daily_summaries[2].date, daily_summaries[1].date)
    /\ Before(weekly_summaries[2].start_date, weekly_summaries[1].start_date)
    /\ Before(monthly_summaries[2].start_date, monthly_summaries[1].start_date)

\* The weekly buckets whose start_date is in the month of the monthly bucket b.
WeeksStartingIn(b) ==
    SelectSeq(weekly_summaries,
              LAMBDA w : <<w.start_date.y, w.start_date.m>> = b.month)

\* C20: the monthly buckets have distinct months, every weekly bucket's
\* start_date is in the month of one of them, and a monthly bucket counts the
\* whole commit_count of the weekly buckets whose start_date is in its month.
C20_MonthOfMonday ==
    MonthlyDone =>
        /\ \A a, b \in 1..Len(monthly_summaries) :
              a # b => monthly_summaries[a].month # monthly_summaries[b].month
        /\ \A i \in 1..Len(weekly_summaries) :
              \E b \in 1..Len(monthly_summaries) :
                 weekly_summaries[i] \in Range(WeeksStartingIn(monthly_summaries[b]))
        /\ \A b \in 1..Len(monthly_summaries) :
              monthly_summaries[b].commit_count
                 = TotalCommits(WeeksStartingIn(monthly_summaries[b]))

\* C20 witness: a week that starts in one month and ends in the next, with a
\* commit in each, is counted whole in the month of its Monday.
C20_Witness ==
    /\ MonthlyDone
    /\ Len(daily_summaries) = 2
    /\ daily_summaries[1].date.m # daily_summaries[2].date.m
    /\ Len(weekly_summaries) = 1
    /\ weekly_summaries[1].start_date.m # weekly_summaries[1].end_date.m
    /\ Len(monthly_summaries) = 1
    /\ monthly_summaries[1].month
          = <<weekly_summaries[1].start_date.y, weekly_summaries[1].start_date.m>>
    /\ monthly_summaries[1].commit_count = 2

(***************************************************************************)
(* Claims about the residual (SpecResidual)                                *)
(***************************************************************************)
\* The fractional remainder raw - floor(raw * 100) / 100 of the exact share, as
\* a numerator over 100 * total.
ExactRemainder(w, total) == (w * HundredPercent) % total

\* C19: when the rounded shares of a returned map do not sum to 100.00, the
\* whole difference is added to exactly one technology, one whose share has
\* the largest fractional remainder, and every other technology keeps its
\* rounded share; when they sum to 100.00, every technology keeps its rounded
\* share.  (Violated: the residual goes to a share with no remainder.)
C19_ResidualToLargestRemainder ==
    (level # "none" /\ GroupTotal > 0 /\ result.status = "ok") =>
        LET totals  == CollectWeights(<<>>, group)
            rounded == RoundedPercentages(totals, GroupTotal)
            diff    == HundredPercent - TotalWeight(rounded)
        IN  IF diff = 0 THEN result.value = SortedByTech(rounded)
            ELSE \E i \in 1..Len(totals) :
                    /\ \A j \in 1..Len(totals) :
                          ExactRemainder(totals[j].weight, GroupTotal)
                             <= ExactRemainder(totals[i].weight, GroupTotal)
                    /\ result.value = SortedByTech(
                          [rounded EXCEPT ![i] = Entry(rounded[i].tech,
                                                       rounded[i].weight + diff)])

C28_WithinBounds ==
    (level # "none" /\ GroupTotal > 0 /\ result.status = "ok") =>
        \A i \in 1..Len(result.value) :
            /\ 0 <= result.value[i].weight
            /\ result.value[i].weight <= HundredPercent

(***************************************************************************)
(* SpecDates: one call of process_input_dates, or of the date part of      *)
(* collect_inputs, on a pair of answers                                    *)
(***************************************************************************)
DatesInit ==
    /\ input_start \in DateStrings
    /\ input_end \in DateStrings
    /\ dates_pc = "called"
    /\ dates = Raised("")
    /\ NormIdle /\ AggIdle /\ ExtractIdle /\ PipelineIdle /\ UnifyIdle /\ DetectIdle
    /\ ProviderIdle

\* CustomDatetime.process_input_dates(start_date, end_date)
ProcessInputDates ==
    /\ dates_pc = "called"
    /\ dates' = process_input_dates(input_start, input_end)
    /\ dates_pc' = "processed"
    /\ UNCHANGED <<input_start, input_end, normVars, aggVars, extractVars,
                   pipeVars, unifyVars, detectVars, providerVars>>

\* ConfigurationManager.collect_inputs, the two date prompts
CollectDates ==
    /\ dates_pc = "called"
    /\ dates' = StoredDates(input_start, input_end)
    /\ dates_pc' = "collected"
    /\ UNCHANGED <<input_start, input_end, normVars, aggVars, extractVars,
                   pipeVars, unifyVars, detectVars, providerVars>>

DatesNext == ProcessInputDates \/ CollectDates

SpecDates == DatesInit /\ [][DatesNext]_vars

\* s is written YYYY-MM-DD: four digits, two digits, two digits, and names a
\* day of the calendar.
IsIsoDate(s) ==
    /\ Len(s) = 10
    /\ \A i \in {1, 2, 3, 4, 6, 7, 9, 10} : s[i] \in Range(Digits)
    /\ s[5] = "-" /\ s[8] = "-"
    /\ IntOf(SubSeq(s, 1, 4)) >= 1
    /\ IntOf(SubSeq(s, 6, 7)) \in 1..12
    /\ IntOf(SubSeq(s, 9, 10)) \in 1..DaysInMonth(IntOf(SubSeq(s, 1, 4)),
                                                   IntOf(SubSeq(s, 6, 7)))

IsoDate(s) == Date(IntOf(SubSeq(s, 1, 4)), IntOf(SubSeq(s, 6, 7)), IntOf(SubSeq(s, 9, 10)))

\* C22: process_input_dates raises exactly when a given bound is not written
\* YYYY-MM-DD or both are and the start is later than the end; otherwise it
\* returns the day of each given bound and None for each bound not given
\* (equal bounds are accepted).  (Violated: "2023-2-5" is accepted.)
C22_InputDates ==
    dates_pc = "processed" =>
        LET bad(s) == s # <<>> /\ ~IsIsoDate(s)
            rejected ==
                \/ bad(input_start)
                \/ bad(input_end)
                \/ /\ input_start # <<>> /\ input_end # <<>>
                   /\ IsIsoDate(input_start) /\ IsIsoDate(input_end)
                   /\ ToOrdinal(IsoDate(input_start)) > ToOrdinal(IsoDate(input_end))
        IN  IF rejected THEN dates.status = "ValueError"
            ELSE dates = Returned(
                    [start_date |-> IF input_start = <<>> THEN <<>>
                                    ELSE <<IsoDate(input_start)>>,
                     end_date   |-> IF input_end = <<>> THEN <<>>
                                    ELSE <<IsoDate(input_end)>>])

\* Configuration cfg with the dates collect_inputs stored.
WithDates(cfg, stored) ==
    [cfg EXCEPT !.start_date = stored.start_date, !.end_date = stored.end_date]

ExactlyOneGiven == (input_start = <<>>) # (input_end = <<>>)

\* C30: collect_inputs stores the dates process_input_dates returns when both
\* bounds are given; when exactly one is given nothing is raised whatever it
\* holds, both stored bounds stay None (so the extraction gets no bound), and
\* the fingerprint is that of the configuration without dates.
C30_BothOrNothing ==
    dates_pc = "collected" =>
        /\ (input_start # <<>> /\ input_end # <<>>) =>
              dates = process_input_dates(input_start, input_end)
        /\ ExactlyOneGiven =>
              /\ dates = Returned(NoDates)
              /\ \A cfg \in Configs, date \in {<<>>, <<1>>} :
                    generate_hash(WithDates(cfg, dates.value), date)
                       = generate_hash(WithDates(cfg, NoDates), date)

\* C30 witness: only a start date was given, and it names no day; nothing was
\* raised and nothing stored.
C30_Witness ==
    /\ dates_pc = "collected"
    /\ input_start = <<"2", "0", "2", "3", "/", "1", "3", "/", "3", "0">>
    /\ input_end = <<>>
    /\ dates = Returned(NoDates)

(***************************************************************************)
(* SpecDetect: one call of detect, from the model's response on            *)
(***************************************************************************)
DetectInit ==
    /\ response \in Responses
    /\ detect_pc = "called"
    /\ technologies = Raised("")
    /\ NormIdle /\ AggIdle /\ ExtractIdle /\ PipelineIdle /\ UnifyIdle /\ DatesIdle
    /\ ProviderIdle

Detect ==
    /\ detect_pc = "called"
    /\ technologies' = detect(response)
    /\ detect_pc' = IF technologies'.status = "ok" THEN "returned" ELSE "raised"
    /\ UNCHANGED <<response, normVars, aggVars, extractVars, pipeVars, unifyVars,
                   dateVars, providerVars>>

DetectNext == Detect

SpecDetect == DetectInit /\ [][DetectNext]_vars

\* The response is malformed: what is left of it without fences and blanks is
\* not JSON.
Malformed(r) ==
    JsonLoads(StripChars(StripChars(r, {Fence, "j", "s", "o", "n"}), Blanks)).status
        # "ok"

\* The one repair: a trailing comma stripped, a missing closing brace appended.
Repair(r) ==
    LET t == RStripChars(StripChars(r, Blanks), {","})
    IN  IF EndsWith(t, "}") THEN t ELSE Append(t, "}")

\* C21: a call of detect that has ended has returned, never raised; on a
\* malformed response it returned the structure the repaired response parses
\* to, and an empty map if the repaired response does not parse.
C21_RepairOrEmpty ==
    detect_pc # "called" =>
        /\ detect_pc = "returned"
        /\ Malformed(response) =>
              technologies = (IF JsonLoads(Repair(response)).status = "ok"
                              THEN JsonLoads(Repair(response))
                              ELSE Returned(EmptyMap))

\* C21 witness: an object cut short after a comma is repaired and returned.
C21_Witness ==
    /\ detect_pc = "returned"
    /\ response = <<"{", Quote, "a", Quote, ":", "6", "0", ",", Quote, "b", Quote,
                    ":", "4", "0", ",">>
    /\ Malformed(response)
    /\ technologies.value.kind = "object"
    /\ Len(technologies.value.body) = 2

\* C21, the fallback: a malformed response that the repair does not mend
\* gives an empty map.
C21_WitnessEmpty ==
    /\ detect_pc = "returned"
    /\ response = <<"{", Quote, "a", Quote, ":">>
    /\ technologies = Returned(EmptyMap)

(***************************************************************************)
(* SpecProvider: calls of Openai.generate on one provider                  *)
(***************************************************************************)
ProviderInit ==
    /\ redis \in {"connected", "none"}      \* CacheManager.__init__: ping failed
    /\ reachable \in BOOLEAN
    /\ cache_store \in [Prompts -> {<<>>} \cup {<<r>> : r \in ApiResponses}]
    /\ store_at_call = cache_store
    /\ provider_pc = "idle"
    /\ call = [prompt |-> "", cache |-> FALSE]
    /\ retry_count = 0 /\ requests = 0 /\ outcome = "" /\ answer = <<>>
    /\ call_count = 0
    /\ NormIdle /\ AggIdle /\ ExtractIdle /\ PipelineIdle /\ UnifyIdle
    /\ DatesIdle /\ DetectIdle

\* generate(prompt, cache=...) is called; the backend is reachable or not
\* for the length of the call.
Generate ==
    /\ provider_pc \in {"idle", "returned", "raised"}
    /\ call_count < MaxCalls
    /\ call_count' = call_count + 1
    /\ \E prompt \in Prompts, cache \in BOOLEAN :
          call' = [prompt |-> prompt, cache |-> cache]
    /\ reachable' \in BOOLEAN
    /\ store_at_call' = cache_store
    /\ retry_count' = 0 /\ requests' = 0 /\ outcome' = "" /\ answer' = <<>>
    /\ provider_pc' = "lookup"
    /\ UNCHANGED <<redis, cache_store, normVars, aggVars, extractVars, pipeVars,
                   unifyVars, dateVars, detectVars>>

\* cached_response = self.cache_manager.get(prompt), and the early return
Lookup ==
    /\ provider_pc = "lookup"
    /\ LET cached_response == CacheGet(redis, reachable, cache_store, call.prompt)
       IN  IF call.cache /\ cached_response # <<>>
           THEN provider_pc' = "returned" /\ answer' = cached_response
           ELSE provider_pc' = "request" /\ answer' = answer
    /\ UNCHANGED <<redis, reachable, cache_store, store_at_call, call, retry_count,
                   requests, outcome, call_count, normVars, aggVars, extractVars, pipeVars,
                   unifyVars, dateVars, detectVars>>

\* One turn of the while loop: the API request and what follows it.
Request ==
    /\ provider_pc = "request"
    /\ CanRetry(retry_count)
    /\ requests' = requests + 1
    /\ \/ \E text \in ApiResponses :
             /\ outcome' = "completed"
             /\ cache_store' = IF call.cache
                               THEN CacheSet(redis, reachable, cache_store,
                                             call.prompt, text)
                               ELSE cache_store
             /\ answer' = <<text>>
             /\ provider_pc' = "returned"
             /\ UNCHANGED retry_count
       \/ /\ outcome' = "RateLimitError"
          /\ retry_count' = retry_count + 1
          /\ UNCHANGED <<cache_store, answer, provider_pc>>
       \/ /\ outcome' = "Exception"
          /\ provider_pc' = "raised"
          /\ UNCHANGED <<cache_store, answer, retry_count>>
    /\ UNCHANGED <<redis, reachable, store_at_call, call, call_count,
                   normVars, aggVars, extractVars, pipeVars,
                   unifyVars, dateVars, detectVars>>

\* The loop is left: raise Exception("Failed after ... retries ...").
GiveUp ==
    /\ provider_pc = "request"
    /\ ~CanRetry(retry_count)
    /\ provider_pc' = "raised"
    /\ UNCHANGED <<redis, reachable, cache_store, store_at_call, call, retry_count,
                   requests, outcome, answer, call_count, normVars, aggVars, extractVars, pipeVars,
                   unifyVars, dateVars, detectVars>>

ProviderNext == Generate \/ Lookup \/ Request \/ GiveUp

SpecProvider == ProviderInit /\ [][ProviderNext]_vars

\* A call, once made, runs on: Python executes generate statement by statement.
SpecProviderLive == SpecProvider /\ WF_vars(Lookup \/ Request \/ GiveUp)

ProviderDone == provider_pc \in {"returned", "raised"}

\* What holds of the requests of a call at every moment.
RetryBound ==
    /\ requests <= max_retries
    /\ provider_pc = "request" => requests = retry_count
    /\ (provider_pc = "returned" /\ requests > 0) =>
          /\ requests = retry_count + 1
          /\ outcome = "completed"
    /\ provider_pc = "returned" => answer # <<>>
    /\ (provider_pc = "raised" /\ outcome = "Exception") => requests = retry_count + 1
    /\ (provider_pc = "raised" /\ outcome # "Exception") =>
          /\ outcome = "RateLimitError"
          /\ retry_count = max_retries
          /\ requests = max_retries

\* C24: a call of generate ends; it makes at most 15 requests, each but the
\* first after a rate-limit error; it returns at the first request that
\* completes and raises at the first other error, and after 15 rate-limit
\* errors in a row it raises.
C24_RetryBound ==
    /\ []RetryBound
    /\ [](provider_pc \in {"lookup", "request"} => <>ProviderDone)

\* C24 witness: fourteen rate-limit errors, then the fifteenth request
\* completes and its response is returned.
C24_Witness ==
    /\ provider_pc = "returned"
    /\ retry_count = max_retries - 1
    /\ requests = max_retries
    /\ answer = <<"text">>

\* The backend answers: there is a client and no ConnectionError.
BackendUp == redis = "connected" /\ reachable

\* C25: when a call with cache=True finds a stored response it returns it
\* and makes no request; the store changes only by a completed request of a
\* call with cache=True, which stores the response under the prompt; a call
\* with cache=False leaves the store alone and returns only what a request
\* gave; with the backend unreachable the store is left alone and nothing
\* comes from it.  (Violated: a stored "" is not returned.)
C25_PromptCache ==
    /\ (ProviderDone /\ call.cache /\ BackendUp /\ store_at_call[call.prompt] # <<>>) =>
          /\ provider_pc = "returned"
          /\ answer = store_at_call[call.prompt]
          /\ requests = 0
    /\ cache_store # store_at_call =>
          /\ call.cache /\ BackendUp
          /\ provider_pc = "returned" /\ outcome = "completed"
          /\ cache_store = [store_at_call EXCEPT ![call.prompt] = answer]
    /\ (ProviderDone /\ (~call.cache \/ ~BackendUp)) =>
          /\ cache_store = store_at_call
          /\ provider_pc = "returned" => (requests > 0 /\ outcome = "completed")

(***************************************************************************)
(* SpecBranches: the extraction from repositories that have commits, with  *)
(* no date bound                                                           *)
(***************************************************************************)
BranchesInit ==
    /\ repo \in {r \in Repos : r.heads # <<>>}
    /\ args \in {a \in Arguments : a.start_date = <<>> /\ a.end_date = <<>>}
    /\ pc = "created"
    /\ raised = ""
    /\ branches_to_iterate = <<>>
    /\ branch_pos = 0
    /\ commit_pos = 0
    /\ batch = <<>>
    /\ yielded = <<>>
    /\ NormIdle
    /\ AggIdle
    /\ PipelineIdle
    /\ UnifyIdle
    /\ CallsIdle

SpecBranches == BranchesInit /\ [][ExtractNext]_vars

\* How many of the yielded commits have hash h.
TimesYielded(h) == Cardinality({i \in 1..Len(YieldedData) : YieldedData[i].hash = h})

\* How many of the branches the loop iterates reach the commit with hash h.
BranchesReaching(h) ==
    Cardinality({j \in 1..Len(branches_to_iterate) :
                    /\ branches_to_iterate[j] \in Range(BranchNames(repo.heads))
                    /\ \E c \in Range(IterCommits(repo.heads, branches_to_iterate[j])) :
                          c.hexsha = h})

\* The number of times the commit at position i of the pool is to be counted.
Multiplicity(i) == IF Skipped(Pool[i]) THEN 0 ELSE BranchesReaching(Pool[i].hexsha)

\* datetime.fromisoformat(commit["date"]).date() of a yielded commit
YieldedDay(c) == FromOrdinal(ToOrdinal(Date(1970, 1, 1)) + c.date \div SecondsPerDay)

\* The daily, weekly and monthly buckets made from the yielded batches, every
\* day with one detected technology.
BucketsOfYielded ==
    LET batches == [b \in 1..Len(yielded) |->
                       [i \in 1..Len(yielded[b]) |-> [date |-> YieldedDay(yielded[b][i])]]]
        days    == DayGroups(batches)
        daily   == DailyBuckets(days, [i \in 1..Len(days) |-> <<Entry(1, 100)>>])
        weeks   == WeekGroups(daily)
        weekly  == WeeklyBuckets(weeks, [i \in 1..Len(weeks) |-> 1])
        months  == MonthGroups(weekly)
        monthly == MonthlyBuckets(months, [i \in 1..Len(months) |-> 1])
    IN  [daily |-> daily, weekly |-> weekly, monthly |-> monthly]

\* C23: once the generator is exhausted, a commit that passes the filters has
\* been yielded once for every iterated branch that reaches it, and a commit
\* that does not, never; each daily bucket counts the commits of its day as
\* often as they were yielded, and so do the weekly and the monthly totals.
C23_CrossBranchDuplicates ==
    pc = "done" =>
        LET total == SumSeq([i \in 1..Len(Pool) |-> Multiplicity(i)])
            made  == BucketsOfYielded
        IN  /\ \A i \in 1..Len(Pool) : TimesYielded(Pool[i].hexsha) = Multiplicity(i)
            /\ \A d \in 1..Len(made.daily) :
                  made.daily[d].commit_count
                     = SumSeq([i \in 1..Len(Pool) |->
                                  IF YieldedDay(CommitData(Pool[i])) = made.daily[d].date
                                  THEN Multiplicity(i) ELSE 0])
            /\ TotalCommits(made.daily) = total
            /\ TotalCommits(made.weekly) = total
            /\ TotalCommits(made.monthly) = total

\* C23 witness: a commit on both branches was yielded twice, and the buckets
\* count more commits than there are hashes.
C23_Witness ==
    /\ pc = "done"
    /\ Len(repo.heads) = 2
    /\ \E i \in 1..Len(Pool) : TimesYielded(Pool[i].hexsha) = 2
    /\ TotalCommits(BucketsOfYielded.daily) > Cardinality(YieldedHashes)
    /\ TotalCommits(BucketsOfYielded.monthly) = Len(YieldedData)

(***************************************************************************)
(* Runs that follow a failed run, or a run with other answers              *)
(***************************************************************************)
\* The run r ended because the summarize of s raised.
FailedIn(r, s) == r.invoked[s] = 1 /\ r.outputs[s] = ""

\* C26: the files of the stages that a run completed before its weekly or
\* monthly summarize raised stay stored with what the stages returned; a later
\* run with the same fingerprint does not start the commit generator, does not
\* invoke the summarize of those stages and gets their stored results, invokes
\* summarize only for stages it found no file for, and for each such stage it
\* gets through.
C26_ResumeAfterFailure ==
    \A i \in 1..Len(history) :
        (FailedIn(history[i], "weekly") \/ FailedIn(history[i], "monthly")) =>
            /\ \A t \in Range(Stages) :
                  history[i].outputs[t] # "" =>
                      /\ FileExists(store, FilePath(t, history[i].hash))
                      /\ Load(store, FilePath(t, history[i].hash)) = history[i].outputs[t]
            /\ (run > i /\ hash = history[i].hash) =>
                  /\ ~generator_iterated
                  /\ \A t \in Range(Stages) :
                        /\ history[i].outputs[t] # "" =>
                              /\ invoked[t] = 0
                              /\ outputs[t] \in {"", history[i].outputs[t]}
                        /\ invoked[t] > 0 =>
                              ~FileExists(store_at_start, FilePath(t, hash))
                        /\ (outputs[t] # "" /\ ~FileExists(store_at_start, FilePath(t, hash)))
                              => invoked[t] = 1

\* C26 witness: the first run failed in its weekly stage; the second, with
\* the same fingerprint, loaded the daily file without starting the generator
\* and computed the weekly and the monthly results.
C26_Witness ==
    /\ run = 2 /\ Len(history) >= 1
    /\ FailedIn(history[1], "weekly")
    /\ hash = history[1].hash
    /\ ~generator_iterated
    /\ invoked = [NoCalls EXCEPT !["weekly"] = 1, !["monthly"] = 1]
    /\ outputs["daily"] = history[1].outputs["daily"]
    /\ outputs["weekly"] # "" /\ outputs["monthly"] # ""

\* The two configurations agree on every input that generate_hash reads.
SameHashedInputs(c, d) ==
    /\ c.repo_path = d.repo_path
    /\ c.author_email = d.author_email
    /\ c.llm_provider = d.llm_provider
    /\ c.start_date = d.start_date
    /\ c.end_date = d.end_date

\* The first of the varied configurations with another answer to one of the
\* inputs that generate_hash does not read.
OneAnswerChanged ==
    {Configuration("openai", <<>>, <<>>, [Defaults EXCEPT ![k] = Alternatives[k]]) :
        k \in 1..Len(Defaults)}

\* C29: configurations that differ only in the selected branches, the ignore
\* keywords, the author name, the export format, the target language or the
\* grammatical person have the same fingerprint for the same newest commit,
\* and of two runs with such configurations on the same repository state the
\* later has the fingerprint of the earlier and reuses its stage results.
C29_UnhashedInputs ==
    /\ step = "collect" =>
          \A c, d \in answers \cup OneAnswerChanged :
              SameHashedInputs(c, d)
              => generate_hash(c, last_commit) = generate_hash(d, last_commit)
    /\ \A i, j \in 1..Len(history) :
          (/\ i < j
           /\ history[i].hash # <<>> /\ history[j].hash # <<>>
           /\ SameHashedInputs(history[i].config, history[j].config)
           /\ history[i].last_commit = history[j].last_commit)
          => /\ history[i].hash = history[j].hash
             /\ Reuses(history[j], history[i])

\* C29 witness: the second of two runs on an unchanged repository answered
\* each of the six inputs differently, and took all three results from the
\* files of the first.
C29_Witness ==
    /\ Len(history) = 2
    /\ history[1].last_commit = history[2].last_commit
    /\ history[1].config = Configuration("openai", <<>>, <<>>, Defaults)
    /\ history[2].config = Configuration("openai", <<>>, <<>>, Alternatives)
    /\ history[1].outputs["monthly"] # ""
    /\ history[2].outputs = history[1].outputs
    /\ history[2].invoked = NoCalls

====
